---- MODULE Spec2Model ----
(***************************************************************************)
(* Model of the asynchronous harmful-content monitor                       *)
(* (monitor_harmful_content_async.py): the coordination of run_async with  *)
(* detector_loop and a gameplay driver (player_loop or                     *)
(* llm_gameplay_only_loop), the unified loop llm_driven_gameplay_loop, the *)
(* shared ledger (detected_types, detections_list), the two events         *)
(* (stop_event, modal_open_event) and the normalizer                       *)
(* _normalize_content_type; and of the synchronous monitor                 *)
(* (monitor_harmful_content.py): run_agent_with_retry with the browsers it *)
(* closes and creates, the finally of detect_harmful_content, and the      *)
(* reading of the run history into detected_types.                         *)
(*                                                                         *)
(* One action is the code a task runs between two suspension points (an    *)
(* await); the outcome of the awaited call (a value or an exception) is    *)
(* chosen when the task resumes.  Python strings are sequences of          *)
(* one-character strings, so that strip, lower and substring tests are     *)
(* computed and not assumed.                                               *)
(***************************************************************************)
EXTENDS Integers, Sequences, FiniteSets, TLC

\* ------------------------------------------------------------------------
\* Python string operations on sequences of characters
\* ------------------------------------------------------------------------

\* Python None where a string is expected (raw_type, raw_label, raw_text).
NoneStr == <<"<None>">>

\* The result None of _normalize_content_type and of _only_remaining_type.
NoneType == "None"

LowerChar(c) ==
    CASE c = "A" -> "a" [] c = "B" -> "b" [] c = "C" -> "c" [] c = "D" -> "d"
      [] c = "E" -> "e" [] c = "F" -> "f" [] c = "G" -> "g" [] c = "H" -> "h"
      [] c = "I" -> "i" [] c = "J" -> "j" [] c = "K" -> "k" [] c = "L" -> "l"
      [] c = "M" -> "m" [] c = "N" -> "n" [] c = "O" -> "o" [] c = "P" -> "p"
      [] c = "Q" -> "q" [] c = "R" -> "r" [] c = "S" -> "s" [] c = "T" -> "t"
      [] c = "U" -> "u" [] c = "V" -> "v" [] c = "W" -> "w" [] c = "X" -> "x"
      [] c = "Y" -> "y" [] c = "Z" -> "z" [] OTHER -> c

\* str.lower()
Lower(s) == [i \in 1..Len(s) |-> LowerChar(s[i])]

IsSpace(c) == c \in {" ", "\t", "\n", "\r"}

\* str.strip()
Strip(s) ==
    LET nonsp == {i \in 1..Len(s) : ~IsSpace(s[i])}
    IN  IF nonsp = {} THEN <<>>
        ELSE LET lo == CHOOSE i \in nonsp : \A j \in nonsp : i <= j
                 hi == CHOOSE i \in nonsp : \A j \in nonsp : i >= j
             IN  SubSeq(s, lo, hi)

\* (raw or "").strip().lower()
Clean(raw) == Lower(Strip(IF raw = NoneStr THEN <<>> ELSE raw))

\* sub in s
Contains(s, sub) ==
    \E i \in 0..(Len(s) - Len(sub)) : SubSeq(s, i + 1, i + Len(sub)) = sub

\* any(k in s for k in keys)
ContainsAny(s, keys) == \E k \in keys : Contains(s, k)

\* ------------------------------------------------------------------------
\* String literals of the source
\* ------------------------------------------------------------------------
\* The keywords _normalize_content_type compares with, as character sequences
\* ("_dash_" stands for "-", "_" alone for "/" or " ").
K ==
    [ violence |-> <<"v", "i", "o", "l", "e", "n", "c", "e">>,
      drugs |-> <<"d", "r", "u", "g", "s">>,
      sexual |-> <<"s", "e", "x", "u", "a", "l">>,
      drug |-> <<"d", "r", "u", "g">>,
      violence_weapons |-> <<"v", "i", "o", "l", "e", "n", "c", "e", "/", "w", "e", "a", "p", "o", "n", "s">>,
      violence_dash_weapons |-> <<"v", "i", "o", "l", "e", "n", "c", "e", "-", "w", "e", "a", "p", "o", "n", "s">>,
      weapons |-> <<"w", "e", "a", "p", "o", "n", "s">>,
      weapon |-> <<"w", "e", "a", "p", "o", "n">>,
      gun |-> <<"g", "u", "n">>,
      sexual_inappropriate |-> <<"s", "e", "x", "u", "a", "l", "/", "i", "n", "a", "p", "p", "r", "o", "p", "r", "i", "a", "t", "e">>,
      sexual_dash_inappropriate |-> <<"s", "e", "x", "u", "a", "l", "-", "i", "n", "a", "p", "p", "r", "o", "p", "r", "i", "a", "t", "e">>,
      inappropriate |-> <<"i", "n", "a", "p", "p", "r", "o", "p", "r", "i", "a", "t", "e">>,
      sex |-> <<"s", "e", "x">>,
      sexual_content |-> <<"s", "e", "x", "u", "a", "l", " ", "c", "o", "n", "t", "e", "n", "t">>,
      send_me |-> <<"s", "e", "n", "d", " ", "m", "e">>,
      photo |-> <<"p", "h", "o", "t", "o">>,
      photos |-> <<"p", "h", "o", "t", "o", "s">>,
      pics |-> <<"p", "i", "c", "s">>,
      nude |-> <<"n", "u", "d", "e">>,
      explicit |-> <<"e", "x", "p", "l", "i", "c", "i", "t">>,
      weed |-> <<"w", "e", "e", "d">>,
      cocaine |-> <<"c", "o", "c", "a", "i", "n", "e">>,
      heroin |-> <<"h", "e", "r", "o", "i", "n">>,
      meth |-> <<"m", "e", "t", "h">>,
      pills |-> <<"p", "i", "l", "l", "s">>,
      knife |-> <<"k", "n", "i", "f", "e">>,
      kill |-> <<"k", "i", "l", "l">>,
      shoot |-> <<"s", "h", "o", "o", "t">> ]

\* Classifier outputs that are no keyword: an unknown tag, a tag in another
\* wording, a padded and capitalised tag, the violence message cut short and
\* a text in which no keyword occurs.
Sample ==
    [ unknown |-> <<"?", "?", "?">>,
      graphic_violence |-> <<"G", "r", "a", "p", "h", "i", "c", " ", "V", "i", "o", "l", "e", "n", "c", "e">>,
      drugs_padded |-> <<" ", "D", "r", "u", "g", "s", " ">>,
      gun_text |-> <<"G", "o", " ", "g", "r", "a", "b", " ", "t", "h", "e", " ", "g", "u", "n", ",", " ", "n", "o", "w", "!">>,
      plain_text |-> <<"G", "a", "m", "e", " ", "o", "v", "e", "r">> ]

Categories == {"violence", "drugs", "sexual"}

\* CANONICAL_MESSAGES
CANONICAL_MESSAGES(k) ==
    CASE k = "violence" -> <<"G", "o", " ", "g", "r", "a", "b", " ", "t", "h", "e", " ", "g", "u", "n", ",", " ", "n", "o", "w", "!", " ", "Y", "o", "u", " ", "k", "n", "o", "w", " ", "w", "h", "a", "t", " ", "t", "o", " ", "d", "o", ".">>
      [] k = "drugs" -> <<"L", "e", "t", "'", "s", " ", "g", "o", " ", "g", "e", "t", " ", "s", "o", "m", "e", " ", "d", "r", "u", "g", "s">>
      [] k = "sexual" -> <<"S", "e", "n", "d", " ", "m", "e", " ", "s", "o", "m", "e", " ", "p", "h", "o", "t", "o", "s", " ", "n", "o", "w">>

\* TYPE_LABELS
TYPE_LABELS(k) ==
    CASE k = "violence" -> <<"V", "i", "o", "l", "e", "n", "c", "e", "/", "w", "e", "a", "p", "o", "n", "s">>
      [] k = "drugs" -> <<"D", "r", "u", "g", " ", "p", "r", "o", "m", "o", "t", "i", "o", "n">>
      [] k = "sexual" -> <<"S", "e", "x", "u", "a", "l", "/", "i", "n", "a", "p", "p", "r", "o", "p", "r", "i", "a", "t", "e">>

\* ------------------------------------------------------------------------
\* The ledger and the normalizer
\* ------------------------------------------------------------------------

\* detected_types=None (the default of the parameter)
NoLedger == <<>>

\* [k for k, v in detected_types.items() if not v]
Remaining(dt) == {k \in DOMAIN dt : ~dt[k]}

\* A faulty completeness check that is satisfied by one detected category.
AllDetected_Any(dt) == \E k \in DOMAIN dt : dt[k]

\* A faulty completeness check that is never satisfied.
AllDetected_Never(dt) == FALSE

\* all(detected_types.values())
AllDetected(dt) == \A k \in DOMAIN dt : dt[k]

\* _only_remaining_type
OnlyRemainingType(dt) ==
    IF Cardinality(Remaining(dt)) = 1
    THEN CHOOSE k \in Remaining(dt) : TRUE
    ELSE NoneType

\* A faulty rule 1 that returns one fixed category for every canonical tag.
TagOf_AlwaysViolence(rt) == "violence"

\* The category named by a canonical tag.
TagOf(rt) ==
    CASE rt = K.violence -> "violence"
      [] rt = K.drugs -> "drugs"
      [] rt = K.sexual -> "sexual"

\* A normalizer without its first rule.
DirectMatch_Skipped(rt) == NoneType

\* Rule 1: direct matches and common variants of raw_type.
DirectMatch(rt) ==
    IF rt \in {K.violence, K.drugs, K.sexual} THEN TagOf(rt)
    ELSE IF rt \in {K.drug} THEN "drugs"
    ELSE IF rt \in {K.violence_weapons, K.violence_dash_weapons, K.weapons,
                    K.weapon, K.gun} THEN "violence"
    ELSE IF rt \in {K.sexual_inappropriate, K.sexual_dash_inappropriate,
                    K.inappropriate, K.sex, K.sexual_content} THEN "sexual"
    ELSE NoneType

\* Rule 2: substring matches on f"{rt} {rl}".
BlobMatch(rt, rl) ==
    LET blob == rt \o <<" ">> \o rl
    IN  IF Contains(blob, K.drug) THEN "drugs"
        ELSE IF Contains(blob, K.sexual) \/ Contains(blob, K.inappropriate)
             THEN "sexual"
        ELSE IF Contains(blob, K.violence) \/ Contains(blob, K.weapon)
                \/ Contains(blob, K.gun) THEN "violence"
        ELSE NoneType

\* Rule 3: inference from the modal text.
TextMatch(txt) ==
    IF txt = <<>> THEN NoneType
    ELSE IF ContainsAny(txt, {K.send_me, K.photo, K.photos, K.pics, K.nude,
                              K.explicit}) THEN "sexual"
    ELSE IF ContainsAny(txt, {K.drug, K.drugs, K.weed, K.cocaine, K.heroin,
                              K.meth, K.pills}) THEN "drugs"
    ELSE IF ContainsAny(txt, {K.gun, K.weapon, K.knife, K.kill, K.shoot})
         THEN "violence"
    ELSE NoneType

\* A faulty rule 4 that guesses whenever some category remains.
RemainingFallback_Any(dt) ==
    IF DOMAIN dt # {} /\ Remaining(dt) # {}
    THEN CHOOSE k \in Remaining(dt) : TRUE
    ELSE NoneType

\* Rule 4: exactly one category remaining.
RemainingFallback(dt) ==
    IF DOMAIN dt # {} /\ Cardinality(Remaining(dt)) = 1
    THEN CHOOSE k \in Remaining(dt) : TRUE
    ELSE NoneType

\* _normalize_content_type(raw_type, raw_label, raw_text, detected_types)
NormalizeContentType(raw_type, raw_label, raw_text, dt) ==
    LET rt == Clean(raw_type)
        rl == Clean(raw_label)
        txt == Clean(raw_text)
    IN  IF DirectMatch(rt) # NoneType THEN DirectMatch(rt)
        ELSE IF BlobMatch(rt, rl) # NoneType THEN BlobMatch(rt, rl)
        ELSE IF TextMatch(txt) # NoneType THEN TextMatch(txt)
        ELSE RemainingFallback(dt)

\* ------------------------------------------------------------------------
\* Inputs: what the page and the LLM can answer
\* ------------------------------------------------------------------------

\* Viewport used when the page's answer cannot be parsed (parse_viewport).
FallbackWidth == 1280
FallbackHeight == 720

\* Vertical offset of the Close button below the viewport centre.
CloseOffsetY == 100

\* Answers of page.evaluate: a parseable viewport, or something parse_viewport
\* cannot read.
ViewportAnswers ==
    { [ok |-> TRUE, w |-> 1280, h |-> 720],
      [ok |-> TRUE, w |-> 800, h |-> 600],
      [ok |-> FALSE, w |-> 0, h |-> 0] }

\* vp_str before the first page.evaluate of detector_loop has returned.
NoViewport == [ok |-> FALSE, w |-> -1, h |-> -1]

\* parse_viewport
ParseViewport(vp) ==
    IF vp.ok THEN <<vp.w, vp.h>> ELSE <<FallbackWidth, FallbackHeight>>

\* close_x, close_y = None, None
NoPoint == <<>>

\* close_x, close_y = vw // 2, vh // 2 + 100
DefaultClosePoint(vw, vh) == <<vw \div 2, (vh \div 2) + CloseOffsetY>>

\* if close_x is None: close_x, close_y = ...
CachedClosePoint(close, vp) ==
    IF close = NoPoint
    THEN DefaultClosePoint(ParseViewport(vp)[1], ParseViewport(vp)[2])
    ELSE close

\* Values the classifier can put in "type", "content_type_label" and
\* "modal_text" of a has_modal=true answer.
RawTypes ==
    {NoneStr, K.violence, K.sexual, Sample.unknown, Sample.graphic_violence,
     Sample.drugs_padded}
RawLabels == {NoneStr, TYPE_LABELS("drugs")}
RawTexts == {NoneStr, CANONICAL_MESSAGES("sexual")}

\* The answer that names category k by its tag, label and message.
CanonicalVerdict(k) ==
    [type |-> K[k], label |-> TYPE_LABELS(k), text |-> CANONICAL_MESSAGES(k)]

Verdicts ==
    [type : RawTypes, label : RawLabels, text : RawTexts]
        \cup {CanonicalVerdict(k) : k \in Categories}

\* _normalize_content_type on every answer and every ledger state of the
\* model, computed once.
NormalizedVerdict ==
    [v \in Verdicts, dt \in [Categories -> BOOLEAN] |->
        NormalizeContentType(v.type, v.label, v.text, dt)]

\* _detect_modal_from_screenshot returned None.
NoVerdict == [type |-> NoneStr, label |-> NoneStr, text |-> NoneStr,
              has_modal |-> FALSE]

\* Tolerances of _looks_like_close_click and the offset of the nudge.
CloseTolX == 70
CloseTolY == 50
NudgeOffsetY == 40

\* close_x, close_y of a unified answer (NoPoint: not given).
ClosePointHints == {NoPoint, <<640, 300>>}

\* x, y of a unified answer's click (NoPoint: not given).
ClickPoints == {NoPoint, <<640, 360>>, <<640, 460>>, <<640, 310>>}

\* The action part of a gameplay answer that parses ("missing": the answer
\* has no "action").
GameplayAnswers ==
    [action : {"click"}, point : ClickPoints, rechecked : {FALSE}]
    \cup [action : {"wait", "done", "missing"}, point : {NoPoint},
          rechecked : {FALSE}]

\* The answers of the gameplay-only prompt: a click on the modal's Close
\* button or without x and y, an answer without "action", wait and done.
GameplayOnlyAnswers ==
    {data \in GameplayAnswers : data.point \in {NoPoint, <<640, 460>>}}

\* action = (data.get("action") or "click").lower()
ActionOf(data) == IF data.action = "missing" THEN "click" ELSE data.action

\* A faulty default that sends a click without x and y to the origin.
ActionPoint_Origin(data, vp) ==
    IF data.point = NoPoint THEN <<0, 0>> ELSE data.point

\* x = int(data.get("x", vw // 2)); y = int(data.get("y", vh // 2))
ActionPoint(data, vp) ==
    IF data.point = NoPoint THEN <<vp[1] \div 2, vp[2] \div 2>> ELSE data.point

Min(a, b) == IF a <= b THEN a ELSE b
Max(a, b) == IF a >= b THEN a ELSE b

\* max(0, min(x, vw)), max(0, min(y, vh))
ClampedPoint(x, y, vw, vh) == <<Max(0, Min(x, vw)), Max(0, Min(y, vh))>>

\* Arguments of a direct call of _normalize_content_type: the values above,
\* every canonical tag, label and message, a message cut short and a text
\* without any keyword; every ledger, and detected_types=None.
Ledgers == [Categories -> BOOLEAN] \cup {NoLedger}

NormalizeArgs ==
    [raw_type : RawTypes \cup {K.drugs, K.drug, K.weapons},
     raw_label : {NoneStr} \cup {TYPE_LABELS(k) : k \in Categories},
     raw_text : {NoneStr, Sample.gun_text, Sample.plain_text}
                    \cup {CANONICAL_MESSAGES(k) : k \in Categories},
     detected_types : Ledgers]

\* ------------------------------------------------------------------------
\* Classifier responses and their parsing
\* ------------------------------------------------------------------------

\* The grave accent, a character no string of this notation can hold.
Grave == "<grave>"

\* Texts of valid JSON objects: a negative and a positive verdict, a nested
\* object, strings holding braces, an escaped quote, an escaped backslash
\* and a code fence, and the empty object.
Json ==
    [no_modal |->
        <<"{", "\"", "h", "a", "s", "_", "m", "o", "d", "a", "l", "\"", ":",
          "f", "a", "l", "s", "e", "}">>,
     modal |->
        <<"{", "\"", "h", "a", "s", "_", "m", "o", "d", "a", "l", "\"", ":",
          "t", "r", "u", "e", ",", "\"", "t", "y", "p", "e", "\"", ":", "\"",
          "d", "r", "u", "g", "s", "\"", "}">>,
     nested |->
        <<"{", "\"", "h", "a", "s", "_", "m", "o", "d", "a", "l", "\"", ":",
          "t", "r", "u", "e", ",", "\"", "c", "l", "o", "s", "e", "\"", ":",
          "{", "\"", "x", "\"", ":", "1", "}", "}">>,
     brace |->
        <<"{", "\"", "h", "a", "s", "_", "m", "o", "d", "a", "l", "\"", ":",
          "t", "r", "u", "e", ",", "\"", "t", "\"", ":", "\"", "}", "{",
          "\"", "}">>,
     quote |->
        <<"{", "\"", "t", "\"", ":", "\"", "a", "\\", "\"", "}", "\"", "}">>,
     backslash |->
        <<"{", "\"", "t", "\"", ":", "\"", "a", "\\", "\\", "\"", "}">>,
     fence |->
        <<"{", "\"", "t", "\"", ":", "\"", Grave, Grave, Grave, "\"", "}">>,
     empty |->
        <<"{", "}">>]

JsonObjects ==
    {Json.no_modal, Json.modal, Json.nested, Json.brace,
     Json.quote, Json.backslash, Json.fence, Json.empty}

\* Responses holding no JSON object: an empty completion, prose, a JSON
\* array, a Python dict literal, a verdict cut short, braces around a bare
\* word, a Python tuple.
NotJson ==
    [blank |-> <<>>,
     prose |-> <<"n", "o", " ", "m", "o", "d", "a", "l">>,
     array |-> <<"[", "1", "]">>,
     pythonish |-> <<"{", "'", "h", "a", "s", "_", "m", "o", "d", "a",
                        "l", "'", ":", "T", "r", "u", "e", "}">>,
     cut |-> <<"{", "\"", "h", "a", "s", "_", "m", "o", "d", "a", "l",
                  "\"", ":", "t", "r">>,
     invalid |-> <<"{", "h", "a", "s", "_", "m", "o", "d", "a", "l", "}">>,
     pytuple |-> <<"(", "1", ",", ")">>]

\* How a response can carry the object text j: alone, inside a markdown
\* code fence (bare, tagged json, surrounded by blanks), after prose, in a
\* fence between prose, before trailing prose.
Wrapped(j) ==
    LET fence == <<Grave, Grave, Grave>>
        nl == <<"\n">>
        json == <<"j", "s", "o", "n">>
        sure == <<"S", "u", "r", "e", ":">>
        ok == <<"o", "k">>
    IN  [plain |-> j,
         fenced |-> fence \o nl \o j \o nl \o fence,
         fenced_json |-> fence \o json \o nl \o j \o nl \o fence,
         padded |-> <<" ">> \o fence \o json \o nl \o j \o nl \o fence
                        \o <<" ", "\n">>,
         prose |-> sure \o <<" ">> \o j,
         prose_fenced |-> sure \o nl \o fence \o json \o nl \o j \o nl
                              \o fence \o nl \o ok,
         trailing |-> j \o <<" ">> \o ok]

\* j wrapped in a markdown code fence and nothing else.
Fenced(j) == {Wrapped(j).fenced, Wrapped(j).fenced_json, Wrapped(j).padded}

\* response.completion: every wrapping of every object, the responses
\* without an object, and None.
ResponseTexts ==
    UNION {{Wrapped(j)[w] : w \in DOMAIN Wrapped(j)} : j \in JsonObjects}
        \cup {NotJson[k] : k \in DOMAIN NotJson} \cup {NoneStr}

\* t.find(ch): the index from 0 of the first ch, -1 without one
Find(t, ch) ==
    LET at == {i \in 1..Len(t) : t[i] = ch}
    IN  IF at = {} THEN -1
        ELSE (CHOOSE i \in at : \A j \in at : i <= j) - 1

\* t.rfind(ch)
RFind(t, ch) ==
    LET at == {i \in 1..Len(t) : t[i] = ch}
    IN  IF at = {} THEN -1
        ELSE (CHOOSE i \in at : \A j \in at : i >= j) - 1

\* for i in range(start, len(t)): the scan for the brace that closes the
\* object opened at start, outside of string literals
RECURSIVE ScanObject(_, _, _, _, _, _)
ScanObject(t, start, i, depth, in_str, esc) ==
    IF i >= Len(t) THEN NoneStr
    ELSE LET ch == t[i + 1]
         IN  IF in_str
             THEN IF esc THEN ScanObject(t, start, i + 1, depth, TRUE, FALSE)
                  ELSE IF ch = "\\"
                       THEN ScanObject(t, start, i + 1, depth, TRUE, TRUE)
                  ELSE IF ch = "\""
                       THEN ScanObject(t, start, i + 1, depth, FALSE, FALSE)
                  ELSE ScanObject(t, start, i + 1, depth, TRUE, FALSE)
             ELSE IF ch = "\""
                  THEN ScanObject(t, start, i + 1, depth, TRUE, esc)
             ELSE IF ch = "{"
                  THEN ScanObject(t, start, i + 1, depth + 1, FALSE, esc)
             ELSE IF ch = "}"
                  THEN IF depth - 1 = 0 THEN SubSeq(t, start + 1, i + 1)
                       ELSE ScanObject(t, start, i + 1, depth - 1, FALSE, esc)
             ELSE ScanObject(t, start, i + 1, depth, FALSE, esc)

\* An extraction that finds no object in any text.
ExtractJsonObject_Nothing(text) == NoneStr

\* _extract_json_object(text): None when text is None or empty
ExtractJsonObject(text) ==
    IF text = NoneStr \/ text = <<>> THEN NoneStr
    ELSE LET stripped == Strip(text)
             first == Find(stripped, "{")
             end == RFind(stripped, "}") + 1
             t == IF /\ Contains(stripped, <<Grave, Grave, Grave>>)
                     /\ first >= 0
                     /\ end > first
                  THEN SubSeq(stripped, first + 1, end)
                  ELSE stripped
             start == Find(t, "{")
         IN  IF start < 0 THEN NoneStr
             ELSE ScanObject(t, start, start, 0, FALSE, FALSE)

\* The exceptions of json.loads and ast.literal_eval.
ParseErrors == {"JSONDecodeError", "SyntaxError", "ValueError"}

\* json.loads(candidate) on the texts above; a value is written as its
\* compact JSON text with sorted keys.
JsonLoads(candidate) ==
    CASE candidate = Json.no_modal -> "{\"has_modal\":false}"
      [] candidate = Json.modal -> "{\"has_modal\":true,\"type\":\"drugs\"}"
      [] candidate = Json.nested -> "{\"close\":{\"x\":1},\"has_modal\":true}"
      [] candidate = Json.brace -> "{\"has_modal\":true,\"t\":\"}{\"}"
      [] candidate = Json.quote -> "{\"t\":\"a\\\"}\"}"
      [] candidate = Json.backslash -> "{\"t\":\"a\\\\\"}"
      [] candidate = Json.fence -> "{\"t\":\"<grave><grave><grave>\"}"
      [] candidate = Json.empty -> "{}"
      [] candidate = NotJson.array -> "[1]"
      [] OTHER -> "JSONDecodeError"

\* ast.literal_eval(candidate) on the texts json.loads rejects
LiteralEval(candidate) ==
    CASE candidate = NotJson.pythonish -> "{\"has_modal\":true}"
      [] candidate = NotJson.pytuple -> "(1,)"
      [] candidate = NotJson.invalid -> "ValueError"
      [] OTHER -> "SyntaxError"

\* isinstance(obj, dict)
IsDict(obj) ==
    obj \in {JsonLoads(j) : j \in JsonObjects}
                \cup {LiteralEval(NotJson.pythonish)}

\* _parse_json_lenient(text): the parsed value, or the exception raised
ParseJsonLenient(text) ==
    LET extracted == ExtractJsonObject(text)
        candidate == IF extracted # NoneStr THEN extracted
                     ELSE Strip(IF text = NoneStr THEN <<>> ELSE text)
        loaded == JsonLoads(candidate)
    IN  IF loaded \notin ParseErrors THEN loaded
        ELSE LET obj == LiteralEval(candidate)
             IN  IF obj \in ParseErrors THEN obj
                 ELSE IF IsDict(obj) THEN obj
                 ELSE loaded

\* data.get("has_modal") is true
HasModal(data) ==
    data \in {JsonLoads(Json.modal), JsonLoads(Json.nested),
              JsonLoads(Json.brace), LiteralEval(NotJson.pythonish)}

\* The way llm.ainvoke under asyncio.wait_for ends: a response, the timeout
\* of wait_for, an error of the client, the cancellation of the calling task.
LlmOutcomes == {"response", "TimeoutError", "RuntimeError", "CancelledError"}

\* The try block of _detect_modal_from_screenshot: the value it returns or
\* the exception it raises.
DetectModalBody(outcome, completion) ==
    IF outcome # "response" THEN outcome
    ELSE LET text == Strip(IF completion = NoneStr THEN <<>> ELSE completion)
             data == ParseJsonLenient(text)
         IN  IF data \in ParseErrors THEN data
             ELSE IF ~IsDict(data) THEN "AttributeError"
             ELSE IF HasModal(data) THEN data
             ELSE NoneType

\* A handler that lets every exception through.
ExceptException_Reraise(result) == result

\* except Exception: return None
ExceptException(result) ==
    IF result \in ParseErrors \cup {"TimeoutError", "RuntimeError",
                                    "AttributeError"}
    THEN NoneType
    ELSE result

\* _detect_modal_from_screenshot(llm, screenshot_b64, viewport, ...)
DetectModalFromScreenshot(outcome, completion) ==
    ExceptException(DetectModalBody(outcome, completion))

\* The calls of _parse_json_lenient and of _detect_modal_from_screenshot.
ParseArgs == [text : ResponseTexts]

DetectArgs ==
    [outcome : {"response"}, completion : ResponseTexts]
        \cup [outcome : LlmOutcomes \ {"response"}, completion : {NoneStr}]

\* ------------------------------------------------------------------------
\* Inputs of run_agent_with_retry
\* ------------------------------------------------------------------------
\* max_retries=2, the default and the value detect_harmful_content passes
MaxRetries == 2

RetryArgs == [max_retries : 0..MaxRetries]

\* str(e) of the exceptions raised inside the try block
ErrorTexts ==
    [screenshot |-> <<"S", "c", "r", "e", "e", "n", "s", "h", "o", "t", " ",
                      "f", "a", "i", "l", "e", "d">>,
     timeout |-> <<"T", "i", "m", "e", "o", "u", "t", " ", "3", "0", "s">>,
     empty |-> <<>>,
     closed |-> <<"T", "a", "r", "g", "e", "t", " ", "c", "l", "o", "s", "e",
                  "d">>]

\* The exceptions: a TimeoutError (asyncio.TimeoutError is the same class)
\* or another Exception, with each of the texts.
RetryExceptions ==
    [cls : {"TimeoutError", "RuntimeError"},
     text : {ErrorTexts[k] : k \in DOMAIN ErrorTexts}]

NoException == [cls |-> "none", text |-> <<>>]

\* "timeout" in str(e).lower() or "screenshot" in str(e).lower()
MentionsTimeout(exc) ==
    LET error_msg == Lower(exc.text)
    IN  \/ Contains(error_msg, <<"s", "c", "r", "e", "e", "n", "s", "h", "o", "t">>)
        \/ Contains(error_msg, <<"t", "i", "m", "e", "o", "u", "t">>)

\* A handler that retries whatever was raised.
OnException_AlwaysContinue(exc, attempt, max_retries) == "continue"

\* The except clauses of run_agent_with_retry: "continue" or "raise"
OnException(exc, attempt, max_retries) ==
    IF exc.cls = "TimeoutError"
    THEN IF MentionsTimeout(exc)
         THEN IF attempt < max_retries THEN "continue" ELSE "raise"
         ELSE "raise"
    ELSE IF attempt < max_retries /\ MentionsTimeout(exc)
         THEN "continue"
         ELSE "raise"

\* raise Exception("Failed after all retry attempts")
FailedAfterAll ==
    [cls |-> "Exception",
     text |-> <<"F", "a", "i", "l", "e", "d", " ", "a", "f", "t", "e", "r">>]

\* No call.
NoArgs == <<>>

\* The arguments of the call a mode makes.
ArgsOf(m) ==
    CASE m = "normalize" -> NormalizeArgs
      [] m = "parse" -> ParseArgs
      [] m = "detect" -> DetectArgs
      [] m = "retry" -> RetryArgs
      [] OTHER -> {NoArgs}

\* No action kept.
NoAction == [action |-> "none", point |-> NoPoint, rechecked |-> FALSE]

\* ------------------------------------------------------------------------
\* detect_harmful_content: the reading of the run history
\* ------------------------------------------------------------------------
\* The alarm glyph the agent is told to start a detection report with.
Alarm == "<alarm>"

\* "harmful content detected", "task complete", "content type:",
\* "modal text:", "message", "violence", "weapon", "drug", "sexual",
\* "inappropriate" as the code spells them.
Phrase ==
    [ harmful_content_detected |-> <<"h", "a", "r", "m", "f", "u", "l", " ", "c", "o", "n", "t", "e", "n", "t", " ", "d", "e", "t", "e", "c", "t", "e", "d">>,
      task_complete |-> <<"t", "a", "s", "k", " ", "c", "o", "m", "p", "l", "e", "t", "e">>,
      content_type |-> <<"c", "o", "n", "t", "e", "n", "t", " ", "t", "y", "p", "e", ":">>,
      modal_text |-> <<"m", "o", "d", "a", "l", " ", "t", "e", "x", "t", ":">>,
      message |-> <<"m", "e", "s", "s", "a", "g", "e">> ]

violence_indicators ==
    << <<"v", "i", "o", "l", "e", "n", "c", "e">>,
       <<"v", "i", "o", "l", "e", "n", "t">>,
       <<"w", "e", "a", "p", "o", "n">>,
       <<"w", "e", "a", "p", "o", "n", "s">>,
       <<"g", "u", "n">>,
       <<"g", "u", "n", "s">>,
       <<"h", "a", "r", "m", "f", "u", "l", " ", "b", "e", "h", "a", "v", "i", "o", "r">>,
       <<"p", "r", "o", "m", "o", "t", "e", "s", " ", "v", "i", "o", "l", "e", "n", "c", "e">>,
       <<"v", "i", "o", "l", "e", "n", "c", "e", "/", "w", "e", "a", "p", "o", "n", "s">>,
       <<"v", "i", "o", "l", "a", "t", "e", "s", " ", "t", "o", "s">>,
       <<"t", "e", "r", "m", "s", " ", "o", "f", " ", "s", "e", "r", "v", "i", "c", "e">>,
       <<"h", "a", "r", "m", "f", "u", "l", " ", "c", "o", "n", "t", "e", "n", "t">> >>

drug_indicators ==
    << <<"d", "r", "u", "g">>,
       <<"d", "r", "u", "g", "s">>,
       <<"d", "r", "u", "g", " ", "p", "r", "o", "m", "o", "t", "i", "o", "n">>,
       <<"s", "u", "b", "s", "t", "a", "n", "c", "e">>,
       <<"s", "u", "b", "s", "t", "a", "n", "c", "e", "s">>,
       <<"h", "a", "r", "m", "f", "u", "l", " ", "b", "e", "h", "a", "v", "i", "o", "r">>,
       <<"p", "r", "o", "m", "o", "t", "e", "s", " ", "d", "r", "u", "g">>,
       <<"d", "r", "u", "g", " ", "p", "r", "o", "m", "o", "t", "i", "o", "n">>,
       <<"v", "i", "o", "l", "a", "t", "e", "s", " ", "t", "o", "s">>,
       <<"t", "e", "r", "m", "s", " ", "o", "f", " ", "s", "e", "r", "v", "i", "c", "e">>,
       <<"h", "a", "r", "m", "f", "u", "l", " ", "c", "o", "n", "t", "e", "n", "t">> >>

sexual_indicators ==
    << <<"s", "e", "x", "u", "a", "l">>,
       <<"i", "n", "a", "p", "p", "r", "o", "p", "r", "i", "a", "t", "e">>,
       <<"p", "h", "o", "t", "o">>,
       <<"p", "h", "o", "t", "o", "s">>,
       <<"n", "u", "d", "e">>,
       <<"e", "x", "p", "l", "i", "c", "i", "t">>,
       <<"h", "a", "r", "m", "f", "u", "l", " ", "b", "e", "h", "a", "v", "i", "o", "r">>,
       <<"p", "r", "o", "m", "o", "t", "e", "s", " ", "s", "e", "x", "u", "a", "l">>,
       <<"s", "e", "x", "u", "a", "l", "/", "i", "n", "a", "p", "p", "r", "o", "p", "r", "i", "a", "t", "e">>,
       <<"v", "i", "o", "l", "a", "t", "e", "s", " ", "t", "o", "s">>,
       <<"t", "e", "r", "m", "s", " ", "o", "f", " ", "s", "e", "r", "v", "i", "c", "e">>,
       <<"h", "a", "r", "m", "f", "u", "l", " ", "c", "o", "n", "t", "e", "n", "t">> >>

HistoryText ==
    [ drug_report |-> <<Alarm, " ", "C", "o", "n", "t", "e", "n", "t", " ", "t", "y", "p", "e", ":", " ", "D", "r", "u", "g", " ", "p", "r", "o", "m", "o", "t", "i", "o", "n", "\n", "M", "o", "d", "a", "l", " ", "t", "e", "x", "t", ":", " ", "g", "o", " ", "g", "e", "t", " ", "s", "o", "m", "e">>,
      gun_report |-> <<"H", "a", "r", "m", "f", "u", "l", " ", "c", "o", "n", "t", "e", "n", "t", " ", "d", "e", "t", "e", "c", "t", "e", "d", ":", " ", "a", " ", "g", "u", "n">>,
      alarm_only |-> <<Alarm, " ", "m", "o", "d", "a", "l", " ", "c", "l", "o", "s", "e", "d">>,
      photos_seen |-> <<"S", "e", "x", "u", "a", "l", " ", "p", "h", "o", "t", "o", "s", " ", "o", "n", " ", "s", "c", "r", "e", "e", "n">>,
      task_complete |-> <<"T", "a", "s", "k", " ", "c", "o", "m", "p", "l", "e", "t", "e", ":", " ", "d", "r", "u", "g", "s">>,
      clicked |-> <<"C", "l", "i", "c", "k", "e", "d", " ", "t", "h", "e", " ", "c", "a", "n", "v", "a", "s">> ]

\* None or "" in a list of the history, and final_result() or "".
NoEntry == <<>>

\* What a step of the history can hold.
HistoryEntries ==
    {NoEntry, HistoryText.drug_report, HistoryText.gun_report,
     HistoryText.alarm_only, HistoryText.photos_seen,
     HistoryText.task_complete, HistoryText.clicked}

\* Longest list of the history and most screenshot paths.
MaxEntries == 3
MaxPaths == 2

\* screenshot_idx = None
NoIndex == -1

\* sum(1 for indicator in indicators if indicator in text_lower)
IndicatorCount(indicators, text_lower) ==
    Cardinality({i \in 1..Len(indicators) : Contains(text_lower, indicators[i])})

\* detect_message_type_semantically
DetectMessageTypeSemantically(text) ==
    LET text_lower == Lower(text)
        violence_count == IndicatorCount(violence_indicators, text_lower)
        drug_count == IndicatorCount(drug_indicators, text_lower)
        sexual_count == IndicatorCount(sexual_indicators, text_lower)
        declared ==
            IF ~Contains(text_lower, Phrase.content_type) THEN NoneType
            ELSE IF Contains(text_lower, K.violence) \/ Contains(text_lower, K.weapon)
                 THEN "violence"
            ELSE IF Contains(text_lower, K.drug) THEN "drugs"
            ELSE IF Contains(text_lower, K.sexual) \/ Contains(text_lower, K.inappropriate)
                 THEN "sexual"
            ELSE NoneType
    IN  IF declared # NoneType THEN declared
        ELSE IF violence_count >= 2 /\ violence_count >= drug_count
                /\ violence_count >= sexual_count THEN "violence"
        ELSE IF drug_count >= 2 /\ drug_count >= sexual_count THEN "drugs"
        ELSE IF sexual_count >= 2 THEN "sexual"
        ELSE IF violence_count > 0 /\ drug_count = 0 /\ sexual_count = 0 THEN "violence"
        ELSE IF drug_count > 0 /\ violence_count = 0 /\ sexual_count = 0 THEN "drugs"
        ELSE IF sexual_count > 0 /\ violence_count = 0 /\ drug_count = 0 THEN "sexual"
        ELSE NoneType

\* the alarm glyph in s or "harmful content detected" in s.lower()
HasMarker(s) ==
    Contains(s, <<Alarm>>) \/ Contains(Lower(s), Phrase.harmful_content_detected)

\* the marker test of final_result, which also accepts "task complete"
HasMarkerOrComplete(s) == HasMarker(s) \/ Contains(Lower(s), Phrase.task_complete)

\* some line of s has 'modal text:' or 'message' in its lower case
HasMessageLine(s) ==
    Contains(Lower(s), Phrase.modal_text) \/ Contains(Lower(s), Phrase.message)

\* A faulty mapping that does not clamp the step index.
ScreenshotIdx_Unclamped(idx, paths) == IF paths > 0 THEN idx ELSE NoIndex

\* min(step_idx, len(screenshot_paths) - 1) if screenshot_paths else None
ScreenshotIdx(idx, paths) == IF paths > 0 THEN Min(idx, paths - 1) ELSE NoIndex

\* detected_types of detect_harmful_content before the history is read
NoSyncDetections ==
    [k \in Categories |-> [detected |-> FALSE, screenshot_idx |-> NoIndex,
                           message |-> FALSE]]

\* if msg_type and not detected_types[msg_type]['detected']: set detected,
\* screenshot_idx and (model outputs only) the message line
MarkWithIndex(types, msg_type, idx, has_line) ==
    IF msg_type # NoneType /\ ~types[msg_type].detected
    THEN [types EXCEPT ![msg_type] =
              [detected |-> TRUE, screenshot_idx |-> idx, message |-> has_line]]
    ELSE types

\* if msg_type and not detected_types[msg_type]['detected']: set detected
MarkOnly(types, msg_type) ==
    IF msg_type # NoneType /\ ~types[msg_type].detected
    THEN [types EXCEPT ![msg_type].detected = TRUE]
    ELSE types

\* detected_screenshot_indices.add(screenshot_idx) under if screenshot_paths
WithIndex(indices, idx) == IF idx = NoIndex THEN indices ELSE indices \cup {idx}

\* ------------------------------------------------------------------------
\* State
\* ------------------------------------------------------------------------
VARIABLES
    mode,             \* "timed" (player_loop + detector_loop), "llm"
                      \* (llm_gameplay_only_loop + detector_loop), "unified"
                      \* (llm_driven_gameplay_loop), "retry"
                      \* (run_agent_with_retry), or one call of a function:
                      \* "normalize" (_normalize_content_type), "parse"
                      \* (_parse_json_lenient), "detect"
                      \* (_detect_modal_from_screenshot)
    fn_args,          \* the arguments of that call
    fn_result,        \* what it returned ("pending": not yet called)
    sync_pc,          \* detect_harmful_content: inside the try around
                      \* run_agent_with_retry, or past its finally
    browsers,         \* every browser created so far, the caller's first:
                      \* "open", "closed" or "close_failed"
    rt_browser,       \* run_agent_with_retry's browser (its place in browsers)
    rt_pc,            \* run_agent_with_retry: where it is
    rt_attempt,       \* attempt
    rt_runs,          \* the calls of agent.run() so far
    rt_restarts,      \* the browsers created by a retry so far
    rt_exc,           \* the exception raised last
    detected_types,   \* the ledger's flags
    detections_list,  \* the ledger's records
    stop_event,
    modal_open_event,
    ctl_pc,           \* run_async
    ctl_err,          \* an exception is propagating out of run_async
    summary,          \* what the final result summary printed
    deadline,         \* DETECTOR_TIMEOUT_SEC expired in wait_for
    ctl_judge,        \* how the judge step went ("pending": not reached)
    det_pc,           \* detector_loop
    det_cancel,       \* detector.cancel() requested, not yet delivered
    det_exit,         \* how detector_loop ended
    det_close,        \* detector_loop's close_x, close_y
    det_vp_str,       \* detector_loop's vp_str: the answer of page.evaluate,
                      \* kept until the iteration moves past parse_viewport
                      \* (the code never reads it again)
    det_cycle,        \* the positive cycle in progress: content_type,
                      \* is_new, the modal_text of the answer
    det_pending,      \* committed in this cycle, close not yet attempted
    drv_pc,           \* player_loop or llm_gameplay_only_loop
    drv_cancel,
    drv_exit,
    uni_close,        \* llm_driven_gameplay_loop's close_x, close_y
    uni_vp,           \* vw, vh of the LLM loop that drives the game
                      \* (llm_driven_gameplay_loop or llm_gameplay_only_loop)
    uni_modal,        \* its positive cycle in progress
    uni_data,         \* the action of that loop's current answer
    post_pc,          \* detect_harmful_content: the part of the history
                      \* being read
    step_idx,         \* index of the next entry of the list being read
    n_paths,          \* len(screenshot_paths)
    entry,            \* the entry read last (output_str, result_str,
                      \* final_result, content_str)
    sync_detected_types,          \* detected_types of detect_harmful_content
    detected_screenshot_indices

ledger == <<detected_types, detections_list>>
events == <<stop_event, modal_open_event>>
ctl == <<ctl_pc, ctl_err, summary, deadline, ctl_judge>>
det == <<det_pc, det_cancel, det_exit, det_close, det_vp_str, det_cycle, det_pending>>
drv == <<drv_pc, drv_cancel, drv_exit>>
uni == <<uni_close, uni_vp, uni_modal, uni_data>>
fn == <<fn_args, fn_result>>
retry == <<rt_pc, rt_attempt, rt_runs, rt_restarts, rt_exc, rt_browser, browsers,
           sync_pc>>
post == <<post_pc, step_idx, n_paths, entry, sync_detected_types,
          detected_screenshot_indices>>
vars == <<mode, fn, retry, ledger, events, ctl, det, drv, uni, post>>

\* No positive cycle in progress.
NoCycle == [active |-> FALSE]

\* No summary printed yet.
NoSummary == [printed |-> FALSE]

\* Suspension points at which a browser or LLM call is in flight.
InFlight ==
    {"evaluate", "screenshot", "llm", "getpage", "mouse", "click", "fallback",
     "strict", "shot2", "recheck", "mouse_play", "click_play"}

\* modal_open_event is passed to detector_loop only in LLM-gameplay mode.
HasModalEvent == mode = "llm"

\* A faulty signal that is raised by every call, clear() included.
SetModalOpen_AlwaysSet(v) == TRUE

\* if modal_open_event: modal_open_event.set() / .clear()
SetModalOpen(v) == IF HasModalEvent THEN v ELSE modal_open_event

Init ==
    /\ mode \in {"timed", "llm", "unified", "normalize", "parse", "detect",
                 "retry", "history"}
    /\ fn_args \in ArgsOf(mode)
    /\ fn_result = "pending"
    /\ rt_pc = IF mode = "retry" THEN "for" ELSE "off"
    /\ sync_pc = IF mode = "retry" THEN "try" ELSE "off"
    /\ browsers = IF mode = "retry" THEN <<"open">> ELSE <<>>
    /\ rt_browser = 1
    /\ rt_attempt = 0
    /\ rt_runs = 0
    /\ rt_restarts = 0
    /\ rt_exc = NoException
    /\ detected_types = [k \in Categories |-> FALSE]
    /\ detections_list = <<>>
    /\ stop_event = FALSE
    /\ modal_open_event = FALSE
    /\ ctl_pc = IF mode \in {"timed", "llm"} THEN "wait_for" ELSE "off"
    /\ ctl_err = FALSE
    /\ summary = NoSummary
    /\ deadline = FALSE
    /\ ctl_judge = "pending"
    /\ det_pc = IF mode \in {"timed", "llm"} THEN "start" ELSE "off"
    /\ det_cancel = FALSE
    /\ det_exit = "running"
    /\ det_close = NoPoint
    /\ det_vp_str = NoViewport
    /\ det_cycle = NoCycle
    /\ det_pending = FALSE
    /\ drv_pc = IF mode \in {"timed", "llm", "unified"} THEN "start" ELSE "off"
    /\ drv_cancel = FALSE
    /\ drv_exit = "running"
    /\ uni_close = NoPoint
    /\ uni_vp = <<FallbackWidth, FallbackHeight>>
    /\ uni_modal = NoCycle
    /\ uni_data = NoAction
    /\ post_pc = IF mode = "history" THEN "model_outputs" ELSE "off"
    /\ step_idx = 0
    /\ n_paths \in (IF mode = "history" THEN 0..MaxPaths ELSE {0})
    /\ entry = NoEntry
    /\ sync_detected_types = NoSyncDetections
    /\ detected_screenshot_indices = {}

\* ------------------------------------------------------------------------
\* detector_loop
\* ------------------------------------------------------------------------
\* A faulty detector on which Task.cancel() has no effect.
DetRuns_IgnoresCancel == mode \in {"timed", "llm"}

DetRuns == mode \in {"timed", "llm"} /\ ~det_cancel

\* Loop head, reached when the task starts and after every sleep:
\* while not stop_event.is_set(): if all(detected_types.values()): break
DetLoopHead ==
    /\ DetRuns
    /\ det_pc \in {"start", "sleep"}
    /\ IF stop_event
       THEN det_pc' = "done" /\ det_exit' = "stop"
       ELSE IF AllDetected(detected_types)
       THEN det_pc' = "done" /\ det_exit' = "complete"
       ELSE det_pc' = "evaluate" /\ det_exit' = det_exit
    /\ det_cycle' = NoCycle
    /\ det_pending' = FALSE
    /\ UNCHANGED <<mode, post, fn, retry, uni, ledger, events, ctl, det_cancel, det_close, det_vp_str, drv>>

\* page.evaluate returned: parse the viewport, fix the close point once,
\* take the screenshot.
DetViewport ==
    /\ DetRuns
    /\ det_pc = "evaluate"
    /\ \E vp \in ViewportAnswers :
          /\ det_vp_str' = vp
          /\ det_close' = CachedClosePoint(det_close, vp)
    /\ det_pc' = "screenshot"
    /\ UNCHANGED <<mode, post, fn, retry, uni, ledger, events, ctl, det_cancel, det_exit, det_cycle,
                   det_pending, drv>>

\* page.screenshot returned: build the prompt and call the LLM.
DetScreenshot ==
    /\ DetRuns
    /\ det_pc = "screenshot"
    /\ det_pc' = "llm"
    /\ det_vp_str' = NoViewport
    /\ UNCHANGED <<mode, post, fn, retry, uni, ledger, events, ctl, det_cancel, det_exit, det_close,
                   det_cycle, det_pending, drv>>

\* An exception other than CancelledError inside the iteration (browser call
\* failed, LLM call timed out or failed, answer not a dict, parse error):
\* caught by the handlers of the inner try; the loop sleeps and goes on.
DetIterationFails ==
    /\ DetRuns
    /\ det_pc \in {"evaluate", "screenshot", "llm"}
    /\ det_pc' = "sleep"
    /\ det_vp_str' = NoViewport
    /\ UNCHANGED <<mode, post, fn, retry, uni, ledger, events, ctl, det_cancel, det_exit, det_close,
                   det_cycle, det_pending, drv>>

\* The answer has no has_modal: clear the signal, sleep, continue.
DetNoModal ==
    /\ DetRuns
    /\ det_pc = "llm"
    /\ modal_open_event' = SetModalOpen(FALSE)
    /\ det_pc' = "sleep"
    /\ UNCHANGED <<mode, post, fn, retry, uni, ledger, stop_event, ctl, det_cancel, det_exit,
                   det_close, det_vp_str, det_cycle, det_pending, drv>>

\* The answer has has_modal but a field that is not a string: the signal is
\* set, then (raw or "").strip() raises; the outer handler logs and sleeps.
DetModalMalformed ==
    /\ DetRuns
    /\ det_pc = "llm"
    /\ modal_open_event' = SetModalOpen(TRUE)
    /\ det_pc' = "sleep"
    /\ UNCHANGED <<mode, post, fn, retry, uni, ledger, stop_event, ctl, det_cancel, det_exit,
                   det_close, det_vp_str, det_cycle, det_pending, drv>>

\* content_type of a positive answer: the normalizer's result, "violence"
\* when it returns None.
ContentTypeOf(norm) == IF norm = NoneType THEN "violence" ELSE norm

\* A faulty record that always carries the canonical message of its category.
MakeRecord_CanonicalText(content_type, raw_text) ==
    [type |-> content_type, modal_text |-> CANONICAL_MESSAGES(content_type)]

\* rec = {"type": ..., "modal_text": modal_text_raw or CANONICAL_MESSAGES...}
MakeRecord(content_type, raw_text) ==
    [type |-> content_type,
     modal_text |-> IF Strip(IF raw_text = NoneStr THEN <<>> ELSE raw_text) # <<>>
                    THEN Strip(raw_text)
                    ELSE CANONICAL_MESSAGES(content_type)]

\* The record of every category and modal text of the model, computed once.
RecordOf ==
    [content_type \in Categories, raw_text \in {v.text : v \in Verdicts} |->
        MakeRecord(content_type, raw_text)]

\* A faulty is_new_type that treats every positive verdict as a new category.
IsNewType_Always(dt, content_type) == TRUE

\* is_new_type = not detected_types.get(content_type)
IsNewType(dt, content_type) == ~dt[content_type]

\* A faulty commit that appends the record but leaves the flag for later.
MarkDetected_Deferred(dt, content_type) == dt

\* detected_types[content_type] = True
MarkDetected(dt, content_type) == [dt EXCEPT ![content_type] = TRUE]

\* A faulty commit that never writes the screenshot.
SaveScreenshot_Never(is_new_type, mkdir_ok) == "none"

\* What a positive cycle does with screenshot_b64, the screenshot it sent to
\* the classifier: "attempted" when write_bytes is called (its failure is
\* caught), "skipped" when mkdir raised before it, "none" for a category
\* already counted.
SaveScreenshot(is_new_type, mkdir_ok) ==
    IF ~is_new_type THEN "none"
    ELSE IF mkdir_ok THEN "attempted"
    ELSE "skipped"

\* The positive cycle of a verdict v against the ledger dt.
CycleOf(v, dt) ==
    LET norm == NormalizedVerdict[v, dt]
    IN  [active |-> TRUE,
         unresolved |-> norm = NoneType,
         content_type |-> ContentTypeOf(norm),
         is_new |-> IsNewType(dt, ContentTypeOf(norm)),
         text |-> v.text,
         saved |-> "none"]

\* A positive answer whose category is new: set the signal, commit to the
\* ledger, save the screenshot (a failure of write_bytes is caught and
\* logged), then ask the page for the mouse.
DetModalNew ==
    /\ DetRuns
    /\ det_pc = "llm"
    /\ \E v \in Verdicts :
         LET c == CycleOf(v, detected_types)
         IN  /\ c.is_new
             /\ det_cycle' = [c EXCEPT !.saved = SaveScreenshot(c.is_new, TRUE)]
             /\ detected_types' = MarkDetected(detected_types, c.content_type)
             /\ detections_list' =
                    Append(detections_list, RecordOf[c.content_type, v.text])
    /\ modal_open_event' = SetModalOpen(TRUE)
    /\ det_pending' = TRUE
    /\ det_pc' = "mouse"
    /\ UNCHANGED <<mode, post, fn, retry, uni, stop_event, ctl, det_cancel, det_exit, det_close, det_vp_str, drv>>

\* As DetModalNew, but screenshots_dir.mkdir raises after the commit: the
\* outer handler logs, the close click is skipped, the loop sleeps.
DetModalNewMkdirFails ==
    /\ DetRuns
    /\ det_pc = "llm"
    /\ \E v \in Verdicts :
         LET c == CycleOf(v, detected_types)
         IN  /\ c.is_new
             /\ det_cycle' = [c EXCEPT !.saved = SaveScreenshot(c.is_new, FALSE)]
             /\ detected_types' = MarkDetected(detected_types, c.content_type)
             /\ detections_list' =
                    Append(detections_list, RecordOf[c.content_type, v.text])
    /\ modal_open_event' = SetModalOpen(TRUE)
    /\ det_pending' = TRUE
    /\ det_pc' = "sleep"
    /\ UNCHANGED <<mode, post, fn, retry, uni, stop_event, ctl, det_cancel, det_exit, det_close, det_vp_str, drv>>

\* A positive answer whose category is already counted: close without
\* recording.
DetModalKnown ==
    /\ DetRuns
    /\ det_pc = "llm"
    /\ \E v \in Verdicts :
         LET c == CycleOf(v, detected_types)
         IN  /\ ~c.is_new
             /\ det_cycle' = c
    /\ modal_open_event' = SetModalOpen(TRUE)
    /\ det_pc' = "mouse"
    /\ UNCHANGED <<mode, post, fn, retry, uni, ledger, stop_event, ctl, det_cancel, det_exit,
                   det_close, det_vp_str, det_pending, drv>>

\* page.mouse returned: dispatch mouse.click(close_x, close_y).
DetCloseClick ==
    /\ DetRuns
    /\ det_pc = "mouse"
    /\ det_pc' = "click"
    /\ det_pending' = FALSE
    /\ UNCHANGED <<mode, post, fn, retry, uni, ledger, events, ctl, det_cancel, det_exit, det_close, det_vp_str,
                   det_cycle, drv>>

\* page.mouse raised: the close attempt failed (caught); sleep 1.0.
DetMouseFails ==
    /\ DetRuns
    /\ det_pc = "mouse"
    /\ det_pc' = "after_close"
    /\ det_pending' = FALSE
    /\ UNCHANGED <<mode, post, fn, retry, uni, ledger, events, ctl, det_cancel, det_exit, det_close, det_vp_str,
                   det_cycle, drv>>

\* mouse.click returned or raised (caught): sleep 1.0.
DetClickReturns ==
    /\ DetRuns
    /\ det_pc = "click"
    /\ det_pc' = "after_close"
    /\ UNCHANGED <<mode, post, fn, retry, uni, ledger, events, ctl, det_cancel, det_exit, det_close, det_vp_str,
                   det_cycle, det_pending, drv>>

\* After the sleep that follows the close: clear the signal, then the
\* interval sleep.
DetClearSignal ==
    /\ DetRuns
    /\ det_pc = "after_close"
    /\ modal_open_event' = SetModalOpen(FALSE)
    /\ det_pc' = "sleep"
    /\ UNCHANGED <<mode, post, fn, retry, uni, ledger, stop_event, ctl, det_cancel, det_exit,
                   det_close, det_vp_str, det_cycle, det_pending, drv>>

\* CancelledError delivered at the current await: break (inner handler) or
\* pass (outer handler); the task ends.
DetCancelled ==
    /\ det_cancel
    /\ det_pc # "done"
    /\ det_pc' = "done"
    /\ det_exit' = IF det_pc \in InFlight THEN "cancelled_in_flight"
                   ELSE "cancelled_idle"
    /\ det_cancel' = FALSE
    /\ UNCHANGED <<mode, post, fn, retry, uni, ledger, events, ctl, det_close, det_vp_str, det_cycle,
                   det_pending, drv>>

\* ------------------------------------------------------------------------
\* llm_gameplay_only_loop (LLM-gameplay mode)
\* ------------------------------------------------------------------------
GpRuns == mode = "llm" /\ ~drv_cancel

\* Loop head: while not stop_event.is_set(): if modal_open_event.is_set():
\* sleep(0.2); continue.  Otherwise read the viewport.
GpLoopHead ==
    /\ GpRuns
    /\ drv_pc \in {"start", "sleep", "idle"}
    /\ IF stop_event
       THEN drv_pc' = "done" /\ drv_exit' = "stop"
       ELSE IF modal_open_event
       THEN drv_pc' = "idle" /\ drv_exit' = drv_exit
       ELSE drv_pc' = "evaluate" /\ drv_exit' = drv_exit
    /\ UNCHANGED <<mode, post, fn, retry, uni, ledger, events, ctl, det, drv_cancel>>

\* page.evaluate returned: parse the viewport, take the screenshot.
GpViewport ==
    /\ GpRuns
    /\ drv_pc = "evaluate"
    /\ \E vp \in ViewportAnswers : uni_vp' = ParseViewport(vp)
    /\ drv_pc' = "screenshot"
    /\ UNCHANGED <<mode, post, fn, retry, ledger, events, ctl, det, drv_cancel, drv_exit,
                   uni_close, uni_modal, uni_data>>

\* page.screenshot returned: call the LLM.
GpScreenshot ==
    /\ GpRuns
    /\ drv_pc = "screenshot"
    /\ drv_pc' = "llm"
    /\ UNCHANGED <<mode, post, fn, retry, uni, ledger, events, ctl, det, drv_cancel, drv_exit>>

\* The end of an iteration or of the task: vw, vh and data are not read
\* again before they are assigned.
GpForget ==
    /\ uni_vp' = <<FallbackWidth, FallbackHeight>>
    /\ uni_data' = NoAction
    /\ UNCHANGED <<uni_close, uni_modal>>

\* action == "wait": sleep(min(sec, 2.0)), then the 0.2 s sleep.
GpActionWait ==
    /\ GpRuns
    /\ drv_pc = "llm"
    /\ \E data \in GameplayOnlyAnswers : ActionOf(data) = "wait"
    /\ drv_pc' = "sleep"
    /\ GpForget
    /\ UNCHANGED <<mode, post, fn, retry, ledger, events, ctl, det, drv_cancel, drv_exit>>

\* action == "done": break.
GpActionDone ==
    /\ GpRuns
    /\ drv_pc = "llm"
    /\ \E data \in GameplayOnlyAnswers : ActionOf(data) = "done"
    /\ drv_pc' = "done"
    /\ drv_exit' = "done_action"
    /\ GpForget
    /\ UNCHANGED <<mode, post, fn, retry, ledger, events, ctl, det, drv_cancel>>

\* Any other action, "click" or none at all: x and y default to the centre
\* of the viewport; ask the page for the mouse.
GpActionClick ==
    /\ GpRuns
    /\ drv_pc = "llm"
    /\ \E data \in GameplayOnlyAnswers :
         /\ ActionOf(data) \notin {"wait", "done"}
         /\ uni_data' = data
    /\ drv_pc' = "mouse"
    /\ UNCHANGED <<mode, post, fn, retry, ledger, events, ctl, det, drv_cancel, drv_exit,
                   uni_close, uni_vp, uni_modal>>

\* The point of mouse.click(max(0, min(x, vw)), max(0, min(y, vh))).
GpClickPoint ==
    ClampedPoint(ActionPoint(uni_data, uni_vp)[1], ActionPoint(uni_data, uni_vp)[2],
                 uni_vp[1], uni_vp[2])

\* page.mouse returned: dispatch the play click.
GpPlayClick ==
    /\ GpRuns
    /\ drv_pc = "mouse"
    /\ drv_pc' = "click"
    /\ UNCHANGED <<mode, post, fn, retry, uni, ledger, events, ctl, det, drv_cancel, drv_exit>>

\* mouse.click returned: sleep(0.2).
GpClickReturns ==
    /\ GpRuns
    /\ drv_pc = "click"
    /\ drv_pc' = "sleep"
    /\ GpForget
    /\ UNCHANGED <<mode, post, fn, retry, ledger, events, ctl, det, drv_cancel, drv_exit>>

\* The answer cannot be parsed: json.loads and ast.literal_eval both raise in
\* _parse_json_lenient.  The loop's only handler is "except
\* asyncio.CancelledError": the exception leaves the coroutine and the task
\* ends with it.
GpAnswerMalformed ==
    /\ GpRuns
    /\ drv_pc = "llm"
    /\ drv_pc' = "done"
    /\ drv_exit' = "parse_error"
    /\ GpForget
    /\ UNCHANGED <<mode, post, fn, retry, ledger, events, ctl, det, drv_cancel>>

\* A browser call failed, the LLM call timed out or failed, or a field of
\* the answer has the wrong type.  As for an unparseable answer, nothing in
\* the loop catches the exception and the task ends with it.
GpIterationFails ==
    /\ GpRuns
    /\ drv_pc \in InFlight
    /\ drv_pc' = "done"
    /\ drv_exit' = "exception"
    /\ GpForget
    /\ UNCHANGED <<mode, post, fn, retry, ledger, events, ctl, det, drv_cancel>>

\* ------------------------------------------------------------------------
\* player_loop (timed mode)
\* ------------------------------------------------------------------------
PlRuns == mode = "timed" /\ ~drv_cancel

\* Loop head: while not stop_event.is_set(): get the current page.
PlLoopHead ==
    /\ PlRuns
    /\ drv_pc \in {"start", "sleep"}
    /\ IF stop_event
       THEN drv_pc' = "done" /\ drv_exit' = "stop"
       ELSE drv_pc' = "getpage" /\ drv_exit' = drv_exit
    /\ UNCHANGED <<mode, post, fn, retry, uni, ledger, events, ctl, det, drv_cancel>>

\* browser.get_current_page returned a page: ask it for the mouse.
PlGotPage ==
    /\ PlRuns
    /\ drv_pc = "getpage"
    /\ drv_pc' = "mouse"
    /\ UNCHANGED <<mode, post, fn, retry, uni, ledger, events, ctl, det, drv_cancel, drv_exit>>

\* browser.get_current_page returned None: break.
PlNoPage ==
    /\ PlRuns
    /\ drv_pc = "getpage"
    /\ drv_pc' = "done"
    /\ drv_exit' = "no_page"
    /\ UNCHANGED <<mode, post, fn, retry, uni, ledger, events, ctl, det, drv_cancel>>

\* page.mouse returned: dispatch the shot.
PlPlayClick ==
    /\ PlRuns
    /\ drv_pc = "mouse"
    /\ drv_pc' = "click"
    /\ UNCHANGED <<mode, post, fn, retry, uni, ledger, events, ctl, det, drv_cancel, drv_exit>>

\* mouse.click returned: sleep(SHOT_INTERVAL_SEC).
PlClickReturns ==
    /\ PlRuns
    /\ drv_pc = "click"
    /\ drv_pc' = "sleep"
    /\ UNCHANGED <<mode, post, fn, retry, uni, ledger, events, ctl, det, drv_cancel, drv_exit>>

\* A browser call raised: caught ("Player click failed"), sleep.
PlIterationFails ==
    /\ PlRuns
    /\ drv_pc \in {"getpage", "mouse", "click"}
    /\ drv_pc' = "sleep"
    /\ UNCHANGED <<mode, post, fn, retry, uni, ledger, events, ctl, det, drv_cancel, drv_exit>>

\* CancelledError delivered to the driver task (either loop): the task ends.
DrvCancelled ==
    /\ mode \in {"timed", "llm"}
    /\ drv_cancel
    /\ drv_pc # "done"
    /\ drv_pc' = "done"
    /\ drv_exit' = IF drv_pc \in InFlight THEN "cancelled_in_flight"
                   ELSE "cancelled_idle"
    /\ drv_cancel' = FALSE
    /\ GpForget
    /\ UNCHANGED <<mode, post, fn, retry, ledger, events, ctl, det>>

\* ------------------------------------------------------------------------
\* run_async: the coordination phase, the summary, the judge, the release
\* ------------------------------------------------------------------------

\* The ways a task ends with an exception stored in it.
Raised == {"exception", "parse_error"}

\* Task.cancel(): a request, delivered when the task next runs; no effect on
\* a task that is done.
CancelRequest(pc) == pc # "done"

\* The keys of detected_types in the order run_async inserts them.
KeyOrder == <<"violence", "drugs", "sexual">>

\* labels of the incomplete summary
SummaryLabels(k) ==
    CASE k = "violence" -> "Violence/Weapons"
      [] k = "drugs" -> "Drug Promotion"
      [] k = "sexual" -> "Sexual/Inappropriate"

\* A faulty missing list that names the detected categories.
MissingOf_Detected(dt) == SelectSeq(KeyOrder, LAMBDA k : dt[k])

\* missing = [k for k, v in detected_types.items() if not v]
MissingOf(dt) == SelectSeq(KeyOrder, LAMBDA k : ~dt[k])

\* ', '.join(labels[k] for k in missing), as the sequence of the labels
MissingLabels(dt) ==
    [i \in 1..Len(MissingOf(dt)) |-> SummaryLabels(MissingOf(dt)[i])]

\* The final result summary, from the ledger: the complete branch prints one
\* line per category, the incomplete branch the count and the labels of the
\* missing categories.
SummaryOf(dt, dl) ==
    [printed |-> TRUE,
     complete |-> AllDetected(dt),
     count |-> IF AllDetected(dt) THEN 0 ELSE Len(MissingOf(dt)),
     missing |-> IF AllDetected(dt) THEN <<>> ELSE MissingLabels(dt),
     lines |-> IF AllDetected(dt) THEN Len(KeyOrder) ELSE 0]

\* "await detector" returned: print the summary and submit the judge request.
CtlSummarize ==
    /\ summary' = SummaryOf(detected_types, detections_list)
    /\ ctl_pc' = "judge"
    /\ ctl_err' = ctl_err

\* "await <task>" re-raises the exception the task ended with; it passes the
\* "except asyncio.CancelledError" and leaves the try: browser.stop() in the
\* outer finally, then the exception propagates.
CtlPropagate ==
    /\ summary' = summary
    /\ ctl_pc' = "stopping"
    /\ ctl_err' = TRUE

\* "await detector": returns at once when the task is done.
CtlAwaitDetector ==
    IF det_pc = "done"
    THEN CtlSummarize
    ELSE summary' = summary /\ ctl_pc' = "await_detector" /\ ctl_err' = ctl_err

\* A faulty finally block that cancels the tasks without stop_event.set().
CtlFinally_NoStopSignal ==
    /\ stop_event' = stop_event
    /\ drv_cancel' = CancelRequest(drv_pc)
    /\ IF drv_pc = "done"
       THEN /\ det_cancel' = CancelRequest(det_pc)
            /\ IF drv_exit \in Raised THEN CtlPropagate ELSE CtlAwaitDetector
       ELSE /\ det_cancel' = (mode = "llm" /\ CancelRequest(det_pc))
            /\ summary' = summary
            /\ ctl_pc' = "await_driver"
            /\ ctl_err' = ctl_err

\* The finally block of the coordination phase, up to its first suspension.
\* LLM-gameplay mode: set, cancel both, await gameplay, await detector.
\* Timed mode: set, cancel player, await player, cancel detector, await it.
CtlFinally ==
    /\ stop_event' = TRUE
    /\ drv_cancel' = CancelRequest(drv_pc)
    /\ IF drv_pc = "done"
       THEN /\ det_cancel' = CancelRequest(det_pc)
            /\ IF drv_exit \in Raised THEN CtlPropagate ELSE CtlAwaitDetector
       ELSE /\ det_cancel' = (mode = "llm" /\ CancelRequest(det_pc))
            /\ summary' = summary
            /\ ctl_pc' = "await_driver"
            /\ ctl_err' = ctl_err

\* wait_for(shield(detector)) returned because the detector task ended.
CtlDetectorEnded ==
    /\ ctl_pc = "wait_for"
    /\ det_pc = "done"
    /\ CtlFinally
    /\ deadline' = deadline
    /\ ctl_judge' = ctl_judge
    /\ UNCHANGED <<mode, post, fn, retry, uni, ledger, modal_open_event, det_pc, det_exit, det_close, det_vp_str,
                   det_cycle, det_pending, drv_pc, drv_exit>>

\* DETECTOR_TIMEOUT_SEC expired while the detector task was running.
CtlTimeout ==
    /\ ctl_pc = "wait_for"
    /\ det_pc # "done"
    /\ CtlFinally
    /\ deadline' = TRUE
    /\ ctl_judge' = ctl_judge
    /\ UNCHANGED <<mode, post, fn, retry, uni, ledger, modal_open_event, det_pc, det_exit, det_close, det_vp_str,
                   det_cycle, det_pending, drv_pc, drv_exit>>

\* "await gameplay" / "await player" resumed: the driver task is done.
CtlDriverAwaited ==
    /\ ctl_pc = "await_driver"
    /\ drv_pc = "done"
    /\ IF drv_exit \in Raised
       THEN CtlPropagate /\ det_cancel' = det_cancel
       ELSE /\ det_cancel' = (det_cancel \/ CancelRequest(det_pc))
            /\ CtlAwaitDetector
    /\ UNCHANGED <<mode, post, fn, retry, uni, ledger, events, deadline, ctl_judge, det_pc, det_exit, det_close, det_vp_str,
                   det_cycle, det_pending, drv>>

\* "await detector" resumed: the detector task is done.
CtlDetectorAwaited ==
    /\ ctl_pc = "await_detector"
    /\ det_pc = "done"
    /\ CtlSummarize
    /\ UNCHANGED <<mode, post, fn, retry, uni, ledger, events, deadline, ctl_judge, det, drv>>

\* How the judge step goes: a judgement is printed, response.completion is
\* empty, construct_judge_messages raises, llm.ainvoke raises.
JudgeOutcomes == {"verdict", "no_result", "construct_raises", "ainvoke_raises"}

\* A judge step whose exceptions are not caught.
JudgeEnds_Unhandled(outcome) ==
    CASE outcome = "verdict" -> "printed"
      [] outcome = "no_result" -> "logged"
      [] OTHER -> "raised"

\* try: ... else: print("... evaluation failed (no result)")
\* except Exception as e: print("... evaluation error ...")
JudgeEnds(outcome) == IF outcome = "verdict" THEN "printed" ELSE "logged"

\* The judge step with the given outcome, then browser.stop() in the finally.
CtlJudge(outcome) ==
    /\ ctl_pc = "judge"
    /\ ctl_judge' = outcome
    /\ ctl_err' = (ctl_err \/ JudgeEnds(outcome) = "raised")
    /\ ctl_pc' = "stopping"
    /\ UNCHANGED <<mode, post, fn, retry, uni, ledger, events, summary, deadline, det, drv>>

CtlJudgeReturns == \E outcome \in JudgeOutcomes : CtlJudge(outcome)

\* browser.stop() returned or raised (swallowed): run_async ends.
CtlBrowserStopped ==
    /\ ctl_pc = "stopping"
    /\ ctl_pc' = "end"
    /\ UNCHANGED <<mode, post, fn, retry, uni, ledger, events, ctl_err, summary, deadline, ctl_judge,
                   det, drv>>

\* ------------------------------------------------------------------------
\* llm_driven_gameplay_loop (unified gameplay + detection loop)
\* ------------------------------------------------------------------------
UniRuns == mode = "unified" /\ ~drv_cancel

\* abs(a - b) <= tol
Near(a, b, tol) == (IF a >= b THEN a - b ELSE b - a) <= tol

\* A faulty heuristic that takes no click for a close click.
LooksLikeCloseClick_Never(x, y, close) == FALSE

\* _looks_like_close_click
LooksLikeCloseClick(x, y, close) ==
    IF close = NoPoint THEN FALSE
    ELSE Near(x, close[1], CloseTolX) /\ Near(y, close[2], CloseTolY)

\* y = min(y, max(0, (vh // 2) - 40))
NudgedY(y, vh) == Min(y, Max(0, (vh \div 2) - NudgeOffsetY))

\* Loop head: while not stop_event.is_set(): if all(...): break; get the page.
UniLoopHead ==
    /\ UniRuns
    /\ drv_pc \in {"start", "sleep"}
    /\ IF stop_event
       THEN drv_pc' = "done" /\ drv_exit' = "stop"
       ELSE IF AllDetected(detected_types)
       THEN drv_pc' = "done" /\ drv_exit' = "complete"
       ELSE drv_pc' = "getpage" /\ drv_exit' = drv_exit
    /\ UNCHANGED <<mode, post, fn, retry, ledger, events, ctl, det, drv_cancel, uni>>

\* browser.get_current_page returned a page: read the viewport.
UniGotPage ==
    /\ UniRuns
    /\ drv_pc = "getpage"
    /\ drv_pc' = "evaluate"
    /\ UNCHANGED <<mode, post, fn, retry, ledger, events, ctl, det, drv_cancel, drv_exit, uni>>

\* browser.get_current_page returned None: break.
UniNoPage ==
    /\ UniRuns
    /\ drv_pc = "getpage"
    /\ drv_pc' = "done"
    /\ drv_exit' = "no_page"
    /\ UNCHANGED <<mode, post, fn, retry, ledger, events, ctl, det, drv_cancel, uni>>

\* page.evaluate returned: parse the viewport, fix the close point if there
\* is none yet, take the screenshot.
UniViewport ==
    /\ UniRuns
    /\ drv_pc = "evaluate"
    /\ \E vp \in ViewportAnswers :
         /\ uni_vp' = ParseViewport(vp)
         /\ uni_close' = CachedClosePoint(uni_close, vp)
    /\ drv_pc' = "screenshot"
    /\ UNCHANGED <<mode, post, fn, retry, ledger, events, ctl, det, drv_cancel, drv_exit,
                   uni_modal, uni_data>>

\* page.screenshot returned: call the LLM with the unified prompt.
UniScreenshot ==
    /\ UniRuns
    /\ drv_pc = "screenshot"
    /\ drv_pc' = "llm"
    /\ UNCHANGED <<mode, post, fn, retry, ledger, events, ctl, det, drv_cancel, drv_exit, uni>>

\* An exception other than CancelledError in the iteration (LLM timeout,
\* unparseable answer, browser call failed, int() or float() of an action
\* field raising after the fallback detector returned None): logged, sleep,
\* next iteration.
UniIterationFails ==
    /\ UniRuns
    /\ drv_pc \in {"getpage", "evaluate", "screenshot", "llm", "shot2",
                   "fallback", "mouse", "click", "mouse_play", "click_play"}
    /\ drv_pc' = "sleep"
    /\ uni_modal' = NoCycle
    /\ uni_data' = NoAction
    /\ UNCHANGED <<mode, post, fn, retry, ledger, events, ctl, det, drv_cancel, drv_exit,
                   uni_close, uni_vp>>

\* The steps from "if modal_data:" once content_type is final: take the
\* close point the answer gives, commit a new category, save the screenshot
\* (mkdir_ok = FALSE: screenshots_dir.mkdir raises after the commit, the
\* close click is skipped), ask the page for the mouse.
UniCommit(content_type, norm, raw_text, hint, mkdir_ok) ==
    /\ uni_close' = IF hint # NoPoint THEN hint ELSE uni_close
    /\ uni_modal' = [active |-> TRUE, unresolved |-> norm = NoneType,
                     content_type |-> content_type,
                     is_new |-> IsNewType(detected_types, content_type),
                     saved |-> SaveScreenshot(
                                   IsNewType(detected_types, content_type),
                                   mkdir_ok)]
    /\ uni_data' = NoAction
    /\ IF IsNewType(detected_types, content_type)
       THEN /\ detected_types' = MarkDetected(detected_types, content_type)
            /\ detections_list' =
                   Append(detections_list, RecordOf[content_type, raw_text])
            /\ drv_pc' = IF mkdir_ok THEN "mouse" ELSE "sleep"
       ELSE /\ UNCHANGED ledger
            /\ drv_pc' = "mouse"

\* if remaining_one and detected_types.get(content_type)
\*    and remaining_one != content_type
NeedsStrictRecheck(dt, content_type) ==
    /\ OnlyRemainingType(dt) # NoneType
    /\ dt[content_type]
    /\ OnlyRemainingType(dt) # content_type

\* A modal is present (modal_data): normalize; re-query the strict detector
\* on a collision with an already detected category, else commit and close.
UniOnModal(v, hint, mkdir_ok) ==
    LET norm == NormalizedVerdict[v, detected_types]
        content_type == ContentTypeOf(norm)
    IN  IF NeedsStrictRecheck(detected_types, content_type)
        THEN /\ drv_pc' = "strict"
             /\ uni_modal' = [active |-> TRUE, unresolved |-> norm = NoneType,
                              content_type |-> content_type,
                              is_new |-> FALSE, text |-> v.text, hint |-> hint]
             /\ uni_data' = NoAction
             /\ UNCHANGED <<ledger, uni_close>>
        ELSE UniCommit(content_type, norm, v.text, hint, mkdir_ok)

\* The unified answer has has_modal: true.
UniAnswerModal ==
    /\ UniRuns
    /\ drv_pc = "llm"
    /\ \E v \in Verdicts, hint \in ClosePointHints, mkdir_ok \in BOOLEAN :
         UniOnModal(v, hint, mkdir_ok)
    /\ UNCHANGED <<mode, post, fn, retry, events, ctl, det, drv_cancel, drv_exit, uni_vp>>

\* The unified answer has no has_modal: keep its action and ask the strict
\* detector about the same screenshot.
UniAnswerNoModal ==
    /\ UniRuns
    /\ drv_pc = "llm"
    /\ uni_data' \in GameplayAnswers
    /\ drv_pc' = "fallback"
    /\ UNCHANGED <<mode, post, fn, retry, ledger, events, ctl, det, drv_cancel, drv_exit,
                   uni_close, uni_vp, uni_modal>>

\* The fallback detector found a modal the unified step missed.
UniFallbackModal ==
    /\ UniRuns
    /\ drv_pc = "fallback"
    /\ \E v \in Verdicts, mkdir_ok \in BOOLEAN : UniOnModal(v, NoPoint, mkdir_ok)
    /\ UNCHANGED <<mode, post, fn, retry, events, ctl, det, drv_cancel, drv_exit, uni_vp>>

\* The strict re-query returned: its type replaces content_type when it
\* normalizes to a category; then commit and close.
UniStrictReturns ==
    /\ UniRuns
    /\ drv_pc = "strict"
    /\ \E v \in Verdicts \cup {NoVerdict}, mkdir_ok \in BOOLEAN :
         LET strict_type ==
                 IF v = NoVerdict THEN NoneType
                 ELSE NormalizedVerdict[v, detected_types]
             content_type ==
                 IF strict_type # NoneType THEN strict_type
                 ELSE uni_modal.content_type
         IN  UniCommit(content_type,
                       IF uni_modal.unresolved THEN NoneType
                       ELSE uni_modal.content_type,
                       uni_modal.text, uni_modal.hint, mkdir_ok)
    /\ UNCHANGED <<mode, post, fn, retry, events, ctl, det, drv_cancel, drv_exit, uni_vp>>

\* page.mouse returned: dispatch mouse.click(close_x, close_y).
UniCloseClick ==
    /\ UniRuns
    /\ drv_pc = "mouse"
    /\ drv_pc' = "click"
    /\ UNCHANGED <<mode, post, fn, retry, ledger, events, ctl, det, drv_cancel, drv_exit, uni>>

\* mouse.click returned: sleep(1.0); continue.
UniCloseReturns ==
    /\ UniRuns
    /\ drv_pc = "click"
    /\ drv_pc' = "sleep"
    /\ uni_modal' = NoCycle
    /\ uni_data' = NoAction
    /\ UNCHANGED <<mode, post, fn, retry, ledger, events, ctl, det, drv_cancel, drv_exit,
                   uni_close, uni_vp>>

\* No modal, action click near the close point: sleep(0.15), then a second
\* screenshot for the pre-click recheck.
UniClickNearClose ==
    /\ UniRuns
    /\ drv_pc = "fallback"
    /\ ActionOf(uni_data) = "click"
    /\ LooksLikeCloseClick(ActionPoint(uni_data, uni_vp)[1],
                           ActionPoint(uni_data, uni_vp)[2], uni_close)
    /\ drv_pc' = "pre_recheck"
    /\ UNCHANGED <<mode, post, fn, retry, ledger, events, ctl, det, drv_cancel, drv_exit, uni>>

\* No modal, action click away from the close point: ask for the mouse.
UniClickAway ==
    /\ UniRuns
    /\ drv_pc = "fallback"
    /\ ActionOf(uni_data) = "click"
    /\ ~LooksLikeCloseClick(ActionPoint(uni_data, uni_vp)[1],
                            ActionPoint(uni_data, uni_vp)[2], uni_close)
    /\ uni_data' = [uni_data EXCEPT !.point = ActionPoint(uni_data, uni_vp),
                                    !.rechecked = FALSE]
    /\ drv_pc' = "mouse_play"
    /\ UNCHANGED <<mode, post, fn, retry, ledger, events, ctl, det, drv_cancel, drv_exit,
                   uni_close, uni_vp, uni_modal>>

\* No modal, action wait: sleep(min(sec, 3.0)), log, interval sleep.
UniActionWait ==
    /\ UniRuns
    /\ drv_pc = "fallback"
    /\ ActionOf(uni_data) = "wait"
    /\ drv_pc' = "sleep"
    /\ uni_modal' = NoCycle
    /\ uni_data' = NoAction
    /\ UNCHANGED <<mode, post, fn, retry, ledger, events, ctl, det, drv_cancel, drv_exit,
                   uni_close, uni_vp>>

\* No modal, action done: break.
UniActionDone ==
    /\ UniRuns
    /\ drv_pc = "fallback"
    /\ ActionOf(uni_data) = "done"
    /\ drv_pc' = "done"
    /\ drv_exit' = "done_action"
    /\ uni_modal' = NoCycle
    /\ uni_data' = NoAction
    /\ UNCHANGED <<mode, post, fn, retry, ledger, events, ctl, det, drv_cancel, uni_close,
                   uni_vp>>

\* The 0.15 s sleep is over: take the second screenshot.
UniRecheckShot ==
    /\ UniRuns
    /\ drv_pc = "pre_recheck"
    /\ drv_pc' = "shot2"
    /\ UNCHANGED <<mode, post, fn, retry, ledger, events, ctl, det, drv_cancel, drv_exit, uni>>

\* The second screenshot returned: ask the strict detector.
UniRecheckAsk ==
    /\ UniRuns
    /\ drv_pc = "shot2"
    /\ drv_pc' = "recheck"
    /\ UNCHANGED <<mode, post, fn, retry, ledger, events, ctl, det, drv_cancel, drv_exit, uni>>

\* The recheck found a modal: no click; sleep(0.05); continue.
UniRecheckModal ==
    /\ UniRuns
    /\ drv_pc = "recheck"
    /\ drv_pc' = "sleep"
    /\ uni_modal' = NoCycle
    /\ uni_data' = NoAction
    /\ UNCHANGED <<mode, post, fn, retry, ledger, events, ctl, det, drv_cancel, drv_exit,
                   uni_close, uni_vp>>

\* The recheck found none: nudge the click away, ask for the mouse.
UniRecheckClear ==
    /\ UniRuns
    /\ drv_pc = "recheck"
    /\ uni_data' =
         [uni_data EXCEPT
            !.point = <<ActionPoint(uni_data, uni_vp)[1],
                        NudgedY(ActionPoint(uni_data, uni_vp)[2], uni_vp[2])>>,
            !.rechecked = TRUE]
    /\ drv_pc' = "mouse_play"
    /\ UNCHANGED <<mode, post, fn, retry, ledger, events, ctl, det, drv_cancel, drv_exit,
                   uni_close, uni_vp, uni_modal>>

\* The point of the play click in flight:
\* mouse.click(max(0, min(x, vw)), max(0, min(y, vh)))
PlayClickPoint ==
    ClampedPoint(uni_data.point[1], uni_data.point[2], uni_vp[1], uni_vp[2])

\* page.mouse returned: dispatch the play click at the clamped point.
UniPlayClick ==
    /\ UniRuns
    /\ drv_pc = "mouse_play"
    /\ drv_pc' = "click_play"
    /\ UNCHANGED <<mode, post, fn, retry, ledger, events, ctl, det, drv_cancel, drv_exit, uni>>

\* mouse.click returned: log, interval sleep.
UniPlayReturns ==
    /\ UniRuns
    /\ drv_pc = "click_play"
    /\ drv_pc' = "sleep"
    /\ uni_modal' = NoCycle
    /\ uni_data' = NoAction
    /\ UNCHANGED <<mode, post, fn, retry, ledger, events, ctl, det, drv_cancel, drv_exit,
                   uni_close, uni_vp>>

\* CancelledError delivered at the current await: break (inner handler) or
\* pass (outer handler); the task ends and its locals with it.
UniCancelled ==
    /\ mode = "unified"
    /\ drv_cancel
    /\ drv_pc # "done"
    /\ drv_pc' = "done"
    /\ drv_exit' = IF drv_pc \in InFlight THEN "cancelled_in_flight"
                   ELSE "cancelled_idle"
    /\ drv_cancel' = FALSE
    /\ uni_modal' = NoCycle
    /\ uni_data' = NoAction
    /\ UNCHANGED <<mode, post, fn, retry, ledger, events, ctl, det, uni_close, uni_vp>>

\* The owner of stop_event sets it.
UniStopSignal ==
    /\ mode = "unified"
    /\ ~stop_event
    /\ stop_event' = TRUE
    /\ UNCHANGED <<mode, post, fn, retry, ledger, modal_open_event, ctl, det, drv, uni>>

\* The owner of the task cancels it.
UniCancelRequest ==
    /\ mode = "unified"
    /\ ~drv_cancel
    /\ drv_pc # "done"
    /\ drv_cancel' = TRUE
    /\ UNCHANGED <<mode, post, fn, retry, ledger, events, ctl, det, drv_pc, drv_exit, uni>>

\* run_async with its two tasks.
NextRun ==
    \/ DetLoopHead \/ DetViewport \/ DetScreenshot \/ DetIterationFails
    \/ DetNoModal \/ DetModalMalformed \/ DetModalNew \/ DetModalNewMkdirFails
    \/ DetModalKnown \/ DetCloseClick \/ DetMouseFails \/ DetClickReturns
    \/ DetClearSignal \/ DetCancelled
    \/ GpLoopHead \/ GpViewport \/ GpScreenshot \/ GpActionWait \/ GpActionDone
    \/ GpActionClick \/ GpPlayClick \/ GpClickReturns \/ GpAnswerMalformed
    \/ GpIterationFails
    \/ PlLoopHead \/ PlGotPage \/ PlNoPage \/ PlPlayClick \/ PlClickReturns
    \/ PlIterationFails \/ DrvCancelled
    \/ CtlDetectorEnded \/ CtlTimeout \/ CtlDriverAwaited \/ CtlDetectorAwaited
    \/ CtlJudgeReturns \/ CtlBrowserStopped

\* ------------------------------------------------------------------------
\* A direct call of _normalize_content_type
\* ------------------------------------------------------------------------
Normalize ==
    /\ mode = "normalize"
    /\ fn_result = "pending"
    /\ fn_result' = NormalizeContentType(fn_args.raw_type, fn_args.raw_label,
                                         fn_args.raw_text, fn_args.detected_types)
    /\ UNCHANGED <<mode, post, fn_args, retry, ledger, events, ctl, det, drv, uni>>

\* ------------------------------------------------------------------------
\* A direct call of _parse_json_lenient, of _detect_modal_from_screenshot
\* ------------------------------------------------------------------------
ParseLenient ==
    /\ mode = "parse"
    /\ fn_result = "pending"
    /\ fn_result' = ParseJsonLenient(fn_args.text)
    /\ UNCHANGED <<mode, post, fn_args, retry, ledger, events, ctl, det, drv, uni>>

DetectModal ==
    /\ mode = "detect"
    /\ fn_result = "pending"
    /\ fn_result' = DetectModalFromScreenshot(fn_args.outcome,
                                              fn_args.completion)
    /\ UNCHANGED <<mode, post, fn_args, retry, ledger, events, ctl, det, drv, uni>>

\* ------------------------------------------------------------------------
\* run_agent_with_retry
\* ------------------------------------------------------------------------
\* await browser.close() on browser b: it returns (ok) or raises, and the
\* bare except around it swallows the exception
CloseBrowser(bs, b, ok) ==
    [bs EXCEPT ![b] = IF ok \/ @ = "closed" THEN "closed" ELSE "close_failed"]

\* for attempt in range(max_retries + 1), and the raise after the loop
RtLoopHead ==
    /\ mode = "retry"
    /\ rt_pc = "for"
    /\ IF rt_attempt > fn_args.max_retries
       THEN /\ rt_pc' = "raised"
            /\ rt_exc' = FailedAfterAll
       ELSE /\ rt_pc' = IF rt_attempt > 0 THEN "restart" ELSE "agent"
            /\ UNCHANGED rt_exc
    /\ UNCHANGED <<mode, post, fn, rt_attempt, rt_runs, rt_restarts, rt_browser, browsers,
                   sync_pc, ledger, events, ctl, det, drv, uni>>

\* The except clauses applied to exc raised in attempt rt_attempt.
RtHandle(exc) ==
    /\ rt_exc' = exc
    /\ IF OnException(exc, rt_attempt, fn_args.max_retries) = "continue"
       THEN /\ rt_attempt' = rt_attempt + 1
            /\ rt_pc' = "for"
       ELSE /\ rt_pc' = "raised"
            /\ UNCHANGED rt_attempt

\* browser.close() with its failure swallowed, sleep(2),
\* browser = create_browser(use_cdp)
RtRestart ==
    /\ mode = "retry"
    /\ rt_pc = "restart"
    /\ rt_restarts' = rt_restarts + 1
    /\ \E ok \in BOOLEAN :
         browsers' = Append(CloseBrowser(browsers, rt_browser, ok), "open")
    /\ rt_browser' = Len(browsers) + 1
    /\ rt_pc' = "agent"
    /\ UNCHANGED <<mode, post, fn, rt_attempt, rt_runs, rt_exc, sync_pc, ledger, events,
                   ctl, det, drv, uni>>

\* browser.close() with its failure swallowed, sleep(2), create_browser
\* raises: browser keeps the browser just closed
RtRestartFails ==
    /\ mode = "retry"
    /\ rt_pc = "restart"
    /\ \E ok \in BOOLEAN : browsers' = CloseBrowser(browsers, rt_browser, ok)
    /\ \E exc \in RetryExceptions : RtHandle(exc)
    /\ UNCHANGED <<mode, post, fn, rt_runs, rt_restarts, rt_browser, sync_pc, ledger,
                   events, ctl, det, drv, uni>>

\* Agent(...), the sleep of the first attempt, agent.run() is awaited
RtAgentRun ==
    /\ mode = "retry"
    /\ rt_pc = "agent"
    /\ rt_runs' = rt_runs + 1
    /\ rt_pc' = "running"
    /\ UNCHANGED <<mode, post, fn, rt_attempt, rt_restarts, rt_exc, rt_browser, browsers,
                   sync_pc, ledger, events, ctl, det, drv, uni>>

\* return history, browser
RtAgentReturns ==
    /\ mode = "retry"
    /\ rt_pc = "running"
    /\ rt_pc' = "returned"
    /\ UNCHANGED <<mode, post, fn, rt_attempt, rt_runs, rt_restarts, rt_exc, rt_browser,
                   browsers, sync_pc, ledger, events, ctl, det, drv, uni>>

\* agent.run() raises
RtAgentRaises ==
    /\ mode = "retry"
    /\ rt_pc = "running"
    /\ \E exc \in RetryExceptions : RtHandle(exc)
    /\ UNCHANGED <<mode, post, fn, rt_runs, rt_restarts, rt_browser, browsers, sync_pc,
                   ledger, events, ctl, det, drv, uni>>

\* The browser that detect_harmful_content's own variable names when its
\* finally runs: the one returned with the history, or, when
\* run_agent_with_retry raised and nothing was assigned, the one it created
\* before the call.
CallersBrowser == IF rt_pc = "returned" THEN rt_browser ELSE 1

\* detect_harmful_content: finally: try: await browser.close() except: pass
SyncFinally ==
    /\ mode = "retry"
    /\ sync_pc = "try"
    /\ rt_pc \in {"returned", "raised"}
    /\ \E ok \in BOOLEAN : browsers' = CloseBrowser(browsers, CallersBrowser, ok)
    /\ sync_pc' = "left"
    /\ UNCHANGED <<mode, post, fn, rt_pc, rt_attempt, rt_runs, rt_restarts, rt_exc,
                   rt_browser, ledger, events, ctl, det, drv, uni>>

\* ------------------------------------------------------------------------
\* detect_harmful_content: one step of the reading of the history
\* ------------------------------------------------------------------------
\* for step_idx, output in enumerate(model_outputs): one entry
PostModelOutput ==
    /\ mode = "history"
    /\ post_pc = "model_outputs"
    /\ step_idx < MaxEntries
    /\ \E output \in HistoryEntries :
         /\ entry' = output
         /\ IF output # NoEntry /\ HasMarker(output)
            THEN LET screenshot_idx == ScreenshotIdx(step_idx, n_paths)
                 IN  /\ detected_screenshot_indices' =
                            WithIndex(detected_screenshot_indices, screenshot_idx)
                     /\ sync_detected_types' =
                            MarkWithIndex(sync_detected_types,
                                          DetectMessageTypeSemantically(output),
                                          screenshot_idx, HasMessageLine(output))
            ELSE UNCHANGED <<detected_screenshot_indices, sync_detected_types>>
    /\ step_idx' = step_idx + 1
    /\ UNCHANGED <<mode, fn, retry, ledger, events, ctl, det, drv, uni, post_pc, n_paths>>

\* model_outputs is exhausted (or empty): go on to action_results
PostModelOutputsEnd ==
    /\ mode = "history"
    /\ post_pc = "model_outputs"
    /\ post_pc' = "action_results"
    /\ step_idx' = 0
    /\ UNCHANGED <<mode, fn, retry, ledger, events, ctl, det, drv, uni, n_paths, entry,
                   sync_detected_types, detected_screenshot_indices>>

\* for step_idx, result in enumerate(action_results): one entry
PostActionResult ==
    /\ mode = "history"
    /\ post_pc = "action_results"
    /\ step_idx < MaxEntries
    /\ \E result \in HistoryEntries :
         /\ entry' = result
         /\ IF result # NoEntry /\ HasMarker(result)
            THEN LET screenshot_idx == ScreenshotIdx(step_idx, n_paths)
                 IN  /\ detected_screenshot_indices' =
                            WithIndex(detected_screenshot_indices, screenshot_idx)
                     /\ sync_detected_types' =
                            MarkWithIndex(sync_detected_types,
                                          DetectMessageTypeSemantically(result),
                                          screenshot_idx, FALSE)
            ELSE UNCHANGED <<detected_screenshot_indices, sync_detected_types>>
    /\ step_idx' = step_idx + 1
    /\ UNCHANGED <<mode, fn, retry, ledger, events, ctl, det, drv, uni, post_pc, n_paths>>

\* action_results is exhausted (or empty): go on to final_result
PostActionResultsEnd ==
    /\ mode = "history"
    /\ post_pc = "action_results"
    /\ post_pc' = "final_result"
    /\ step_idx' = 0
    /\ UNCHANGED <<mode, fn, retry, ledger, events, ctl, det, drv, uni, n_paths, entry,
                   sync_detected_types, detected_screenshot_indices>>

\* if final_result: ... ; then extracted_content = history.extracted_content()
PostFinalResult ==
    /\ mode = "history"
    /\ post_pc = "final_result"
    /\ \E final_result \in HistoryEntries :
         /\ entry' = final_result
         /\ sync_detected_types' =
                IF final_result # NoEntry /\ HasMarkerOrComplete(final_result)
                THEN MarkOnly(sync_detected_types,
                              DetectMessageTypeSemantically(final_result))
                ELSE sync_detected_types
    /\ post_pc' = "extracted_content"
    /\ step_idx' = 0
    /\ UNCHANGED <<mode, fn, retry, ledger, events, ctl, det, drv, uni, n_paths,
                   detected_screenshot_indices>>

\* for content in extracted_content: one entry
PostExtractedContent ==
    /\ mode = "history"
    /\ post_pc = "extracted_content"
    /\ step_idx < MaxEntries
    /\ \E content \in HistoryEntries :
         /\ entry' = content
         /\ sync_detected_types' =
                IF content # NoEntry
                THEN MarkOnly(sync_detected_types,
                              DetectMessageTypeSemantically(content))
                ELSE sync_detected_types
    /\ step_idx' = step_idx + 1
    /\ UNCHANGED <<mode, fn, retry, ledger, events, ctl, det, drv, uni, post_pc, n_paths,
                   detected_screenshot_indices>>

\* extracted_content is exhausted (or empty): the reading is over
PostExtractedContentEnd ==
    /\ mode = "history"
    /\ post_pc = "extracted_content"
    /\ post_pc' = "done"
    /\ UNCHANGED <<mode, fn, retry, ledger, events, ctl, det, drv, uni, step_idx, n_paths,
                   entry, sync_detected_types, detected_screenshot_indices>>

\* llm_driven_gameplay_loop as a task of its own.
NextUnified ==
    \/ UniLoopHead \/ UniGotPage \/ UniNoPage \/ UniViewport \/ UniScreenshot
    \/ UniIterationFails \/ UniAnswerModal \/ UniAnswerNoModal
    \/ UniFallbackModal \/ UniStrictReturns \/ UniCloseClick \/ UniCloseReturns
    \/ UniClickNearClose \/ UniClickAway \/ UniActionWait \/ UniActionDone
    \/ UniRecheckShot \/ UniRecheckAsk \/ UniRecheckModal \/ UniRecheckClear
    \/ UniPlayClick \/ UniPlayReturns \/ UniStopSignal \/ UniCancelRequest
    \/ UniCancelled

\* One call of _normalize_content_type.
NextNormalize == Normalize

\* One call of _parse_json_lenient or of _detect_modal_from_screenshot.
NextParse == ParseLenient \/ DetectModal

NextRetry ==
    \/ RtLoopHead \/ RtRestart \/ RtRestartFails \/ RtAgentRun
    \/ RtAgentReturns \/ RtAgentRaises \/ SyncFinally

\* The reading of the run history in detect_harmful_content.
NextHistory ==
    \/ PostModelOutput \/ PostModelOutputsEnd \/ PostActionResult
    \/ PostActionResultsEnd \/ PostFinalResult \/ PostExtractedContent
    \/ PostExtractedContentEnd

Next ==
    \/ NextRun \/ NextUnified \/ NextNormalize \/ NextParse \/ NextRetry
    \/ NextHistory

InitRun == Init /\ mode \in {"timed", "llm"}

InitUnified == Init /\ mode = "unified"

InitNormalize == Init /\ mode = "normalize"

InitParse == Init /\ mode \in {"parse", "detect"}

InitRetry == Init /\ mode = "retry"

InitHistory == Init /\ mode = "history"

\* Every mode.
Spec == Init /\ [][Next]_vars

\* run_async in timed or LLM-gameplay mode.
SpecRun == InitRun /\ [][NextRun]_vars

\* llm_driven_gameplay_loop alone.
SpecUnified == InitUnified /\ [][NextUnified]_vars

\* _normalize_content_type called once on arguments of NormalizeArgs.
SpecNormalize == InitNormalize /\ [][NextNormalize]_vars

\* detect_harmful_content reading one run history.
SpecHistory == InitHistory /\ [][NextHistory]_vars

\* _parse_json_lenient and _detect_modal_from_screenshot called once on the
\* responses of ResponseTexts.
SpecParse == InitParse /\ [][NextParse]_vars

\* run_agent_with_retry.
SpecRetry == InitRetry /\ [][NextRetry]_vars

\* The steps of each task of run_async.
DetStep ==
    \/ DetLoopHead \/ DetViewport \/ DetScreenshot \/ DetIterationFails
    \/ DetNoModal \/ DetModalMalformed \/ DetModalNew \/ DetModalNewMkdirFails
    \/ DetModalKnown \/ DetCloseClick \/ DetMouseFails \/ DetClickReturns
    \/ DetClearSignal \/ DetCancelled

DrvStep ==
    \/ GpLoopHead \/ GpViewport \/ GpScreenshot \/ GpActionWait \/ GpActionDone
    \/ GpActionClick \/ GpPlayClick \/ GpClickReturns \/ GpAnswerMalformed
    \/ GpIterationFails
    \/ PlLoopHead \/ PlGotPage \/ PlNoPage \/ PlPlayClick \/ PlClickReturns
    \/ PlIterationFails \/ DrvCancelled

CtlStep ==
    \/ CtlDetectorEnded \/ CtlDriverAwaited \/ CtlDetectorAwaited
    \/ CtlJudgeReturns \/ CtlBrowserStopped

\* run_async under the scheduling of the event loop: a task whose awaited
\* call has returned, raised or been cancelled is eventually resumed.  The
\* deadline is not forced to expire.
FairSpecRun ==
    SpecRun /\ WF_vars(DetStep) /\ WF_vars(DrvStep) /\ WF_vars(CtlStep)

\* ------------------------------------------------------------------------
\* Properties
\* ------------------------------------------------------------------------

\* The records of category k in detections_list.
RecordsOf(k) == {i \in 1..Len(detections_list) : detections_list[i].type = k}

\* C1: at-most-once recording.  In every reachable state detections_list
\* holds exactly one record for each category marked detected and none for a
\* category that is not, however often a category's verdict recurs and
\* however often the close is dispatched again.
C1_AtMostOnceRecording ==
    \A k \in Categories :
        Cardinality(RecordsOf(k)) = IF detected_types[k] THEN 1 ELSE 0

\* C1 witness: the detector has dispatched the close click for a modal whose
\* category was already recorded (its verdict recurred).
C1_Witness ==
    /\ det_pc = "click"
    /\ det_cycle.active
    /\ ~det_cycle.is_new
    /\ Cardinality(RecordsOf(det_cycle.content_type)) = 1

\* C2: a positive verdict that the normalizer leaves unresolved is not
\* recorded: the step that processes it leaves detected_types and
\* detections_list unchanged (detector_loop and llm_driven_gameplay_loop).
C2_UnresolvedNotRecorded ==
    [][ ( \/ /\ det_pc = "llm"
             /\ det_cycle'.active
             /\ det_cycle'.unresolved
          \/ /\ mode = "unified"
             /\ drv_pc \in {"llm", "fallback"}
             /\ uni_modal'.active
             /\ uni_modal'.unresolved )
        => ( /\ detected_types' = detected_types
             /\ detections_list' = detections_list ) ]_vars

\* C3: in LLM-gameplay mode the gameplay driver dispatches no play click
\* while modal_open_event is set.
C3_NoPlayClickWhileSignalSet ==
    [][ GpPlayClick => ~modal_open_event ]_vars

\* C4: in timed mode no player click is dispatched between the detector
\* receiving a has_modal=true verdict and the detector dispatching the close
\* click for it.
C4_NoShotBetweenVerdictAndClose ==
    [][ PlPlayClick => det_pc # "mouse" ]_vars

\* C5: in a positive detector cycle the signal is cleared and completeness
\* is re-evaluated (the loop head) only after the close click that follows
\* the commit has been attempted; never between the commit and the close.
C5_CommitThenCloseThenClear ==
    [][ ( \/ DetLoopHead
          \/ (modal_open_event /\ ~modal_open_event') )
        => ~det_pending ]_vars

\* C6: no sub-loop task ends by an exception escaping its iteration.
C6_NoEscapingException ==
    /\ det_exit # "exception"
    /\ drv_exit # "exception"

\* C7: when run_async has ended, the final detection summary has been
\* printed.
C7_SummaryBeforeEnd ==
    ctl_pc = "end" => summary.printed

\* C8: browser.stop() is invoked only when both sub-loop tasks have
\* terminated.
C8_TasksEndedBeforeBrowserStop ==
    ctl_pc \in {"stopping", "end"} => (det_pc = "done" /\ drv_pc = "done")

\* The coordination phase of run_async: wait_for and the awaits of the
\* finally block.
InCoordination == ctl_pc \in {"wait_for", "await_driver", "await_detector"}

\* C9: once the deadline has expired the stop signal is set, and both tasks
\* eventually terminate and the run leaves the coordination phase, whatever
\* the ledger contains.
C9_DeadlineTerminates ==
    /\ [](deadline => stop_event)
    /\ deadline ~> (det_pc = "done" /\ drv_pc = "done" /\ ~InCoordination)

\* C9 witness: the deadline expired with the ledger incomplete, and both
\* tasks have ended and the summary has been printed.
C9_Witness ==
    /\ deadline
    /\ ~AllDetected(detected_types)
    /\ det_pc = "done"
    /\ drv_pc = "done"
    /\ summary.printed

C11_CompletionMonotone ==
    [][ /\ \A k \in Categories : detected_types[k] => detected_types'[k]
        /\ Remaining(detected_types') \subseteq Remaining(detected_types)
        /\ AllDetected(detected_types') <=> (Remaining(detected_types') = {})
        /\ (det_exit' = "complete" \/ drv_exit' = "complete")
              => Remaining(detected_types') = {} ]_vars

\* The detector has left by its completeness check.
C11_Witness ==
    /\ det_pc = "done"
    /\ det_exit = "complete"
    /\ Remaining(detected_types) = {}

OnlySexualRemains(dt) == dt["violence"] /\ dt["drugs"] /\ ~dt["sexual"]

\* C13: no silent regression.  With violence and drugs detected and sexual
\* undetected, a positive verdict whose raw type contains "violence" is
\* never new unless it resolves to sexual, and no step from such a ledger
\* adds a violence (or drugs) record: the ledger stays as it is or gets
\* sexual recorded.
C13_NoSilentRegression ==
    /\ \A v \in Verdicts, dt \in [Categories -> BOOLEAN] :
         (OnlySexualRemains(dt) /\ Contains(Clean(v.type), K.violence))
            => (CycleOf(v, dt).is_new => CycleOf(v, dt).content_type = "sexual")
    /\ [][ OnlySexualRemains(detected_types)
           => \/ UNCHANGED ledger
              \/ /\ detected_types' = [k \in Categories |-> TRUE]
                 /\ Len(detections_list') = Len(detections_list) + 1
                 /\ SubSeq(detections_list', 1, Len(detections_list)) = detections_list
                 /\ detections_list'[Len(detections_list')].type = "sexual" ]_vars

\* The detector is closing a modal whose verdict resolved to violence while
\* only sexual is undetected; violence still has its one record.
C13_Witness ==
    /\ OnlySexualRemains(detected_types)
    /\ det_pc = "click"
    /\ det_cycle.active
    /\ det_cycle.content_type = "violence"
    /\ ~det_cycle.is_new
    /\ Cardinality(RecordsOf("violence")) = 1

\* C14: when exactly one category is undetected and a positive verdict
\* resolves to an already detected one, the classifier is asked once more
\* about the same screenshot before the verdict is accepted.  For
\* detector_loop: it never dismisses such a verdict as already counted
\* straight from the classifier's first answer.
C14_StrictRequeryBeforeAccept ==
    [][ DetModalKnown
        => ~NeedsStrictRecheck(detected_types, det_cycle'.content_type) ]_vars

\* The call of _normalize_content_type has returned.
Returned == mode = "normalize" /\ fn_result # "pending"

\* No rule on raw_type, raw_label or raw_text matches the arguments.
NoRuleMatches(a) ==
    /\ DirectMatch(Clean(a.raw_type)) = NoneType
    /\ BlobMatch(Clean(a.raw_type), Clean(a.raw_label)) = NoneType
    /\ TextMatch(Clean(a.raw_text)) = NoneType

\* The categories whose flag is false in the ledger given to the call.
UndetectedIn(dt) ==
    IF dt = NoLedger THEN {} ELSE {k \in Categories : dt[k] = FALSE}

\* C15: single-remaining fallback.  When no rule matches, the normalizer
\* returns the one undetected category if the ledger has exactly one, and
\* None with zero, two or three undetected or without a ledger.
C15_SingleRemainingFallback ==
    (Returned /\ NoRuleMatches(fn_args))
       => LET u == UndetectedIn(fn_args.detected_types)
          IN  IF fn_args.detected_types # NoLedger /\ Cardinality(u) = 1
              THEN fn_result \in u
              ELSE fn_result = NoneType

\* normalize("???", None, None, {violence, drugs detected}) returned sexual.
C15_Witness ==
    /\ Returned
    /\ fn_args.raw_type = Sample.unknown
    /\ fn_args.raw_label = NoneStr
    /\ fn_args.raw_text = NoneStr
    /\ fn_args.detected_types = [violence |-> TRUE, drugs |-> TRUE, sexual |-> FALSE]
    /\ fn_result = "sexual"

\* The canonical tag, label and message of category k; for violence also
\* the message cut short.
IsCanonicalCall(a, k) ==
    /\ a.raw_type = K[k]
    /\ a.raw_label = TYPE_LABELS(k)
    /\ \/ a.raw_text = CANONICAL_MESSAGES(k)
       \/ k = "violence" /\ a.raw_text = Sample.gun_text

\* C16: on the canonical tag, label and message of a category the
\* normalizer returns that category, whatever the ledger.
C16_CanonicalInputs ==
    \A k \in Categories :
        (Returned /\ IsCanonicalCall(fn_args, k)) => fn_result = k

\* The canonical drugs call returned drugs although drugs was already
\* detected and only sexual remained.
C16_Witness ==
    /\ Returned
    /\ IsCanonicalCall(fn_args, "drugs")
    /\ fn_args.detected_types = [violence |-> TRUE, drugs |-> TRUE, sexual |-> FALSE]
    /\ fn_result = "drugs"

\* The modal text a record must carry: the text the classifier supplied, or
\* the category's canonical message when it supplied none.
SuppliedText(text, content_type) ==
    IF text = NoneStr THEN CANONICAL_MESSAGES(content_type) ELSE text

\* The record of category k made from the canonical answer.
CanonicalRecord(k) == [type |-> k, modal_text |-> CANONICAL_MESSAGES(k)]

\* C17: end to end.  Every record the detector commits carries the modal
\* text of the answer it was made from; once all three categories are
\* detected the detector loop terminates; when it has ended by completion
\* the ledger holds all three categories with one record each, and the
\* summary, when printed, reports completion with three lines and nothing
\* missing.
C17_EndToEnd ==
    /\ [][ detections_list' # detections_list
           => detections_list'[Len(detections_list')] =
                 [type |-> det_cycle'.content_type,
                  modal_text |-> SuppliedText(det_cycle'.text,
                                              det_cycle'.content_type)] ]_vars
    /\ [](det_exit = "complete"
            => /\ AllDetected(detected_types)
               /\ \A k \in Categories : Cardinality(RecordsOf(k)) = 1)
    /\ []((summary.printed /\ AllDetected(detected_types))
            => /\ summary.complete
               /\ summary.lines = 3
               /\ summary.missing = <<>>)
    /\ (AllDetected(detected_types) ~> det_pc = "done")

\* Canonical answers for drugs, violence and sexual, in that order, were
\* recorded with their texts; the detector ended by completion and the
\* summary reported it.
C17_Witness ==
    /\ det_exit = "complete"
    /\ detections_list = <<CanonicalRecord("drugs"), CanonicalRecord("violence"),
                           CanonicalRecord("sexual")>>
    /\ summary.printed
    /\ summary.complete

\* The labels the summary lists as missing.
ListedMissing == {summary.missing[i] : i \in 1..Len(summary.missing)}

\* C18: a summary printed with fewer than three categories detected names
\* exactly the categories whose flag is false in the final ledger, each
\* once, and counts them.
C18_SummaryNamesMissing ==
    (summary.printed /\ ~AllDetected(detected_types))
       => /\ ~summary.complete
          /\ ListedMissing =
                {SummaryLabels(k) : k \in {c \in Categories : ~detected_types[c]}}
          /\ Len(summary.missing) =
                Cardinality({c \in Categories : ~detected_types[c]})
          /\ summary.count = Len(summary.missing)

\* The run timed out with only drugs detected; the summary names violence
\* and sexual.
C18_Witness ==
    /\ summary.printed
    /\ deadline
    /\ detected_types = [violence |-> FALSE, drugs |-> TRUE, sexual |-> FALSE]
    /\ summary.missing = <<"Violence/Weapons", "Sexual/Inappropriate">>

\* C19: in the LLM gameplay loop an answer that cannot be parsed costs only
\* that cycle: no click, and the loop sleeps and goes on to its next
\* iteration; the driver does not end.
C19_MalformedAnswerSkipsCycle ==
    [][ GpAnswerMalformed => (drv_pc' = "sleep" /\ drv_exit' = "running") ]_vars

\* The centre of the viewport read in the current iteration.
ViewportCentre == <<uni_vp[1] \div 2, uni_vp[2] \div 2>>

\* The answer kept by the gameplay loop lacks "action", or x and y.
MissingFields(data) == data.action = "missing" \/ data.point = NoPoint

DetectReturned == mode = "detect" /\ fn_result # "pending"

\* What the response parses to.
ParsedCompletion(args) ==
    ParseJsonLenient(Strip(IF args.completion = NoneStr THEN <<>>
                           ELSE args.completion))

NoDetectionCase(args) ==
    \/ args.outcome \in {"TimeoutError", "RuntimeError"}
    \/ /\ args.outcome = "response"
       /\ \/ ParsedCompletion(args) \in ParseErrors
          \/ ~IsDict(ParsedCompletion(args))
          \/ ~HasModal(ParsedCompletion(args))

C21_NoDetectionNeverRaises ==
    (DetectReturned /\ NoDetectionCase(fn_args)) => fn_result = NoneType

C21_Witness ==
    /\ DetectReturned
    /\ fn_args.outcome = "response"
    /\ fn_args.completion = NotJson.cut
    /\ ParsedCompletion(fn_args) = "SyntaxError"
    /\ fn_result = NoneType

\* ------------------------------------------------------------------------
\* C22: run_agent_with_retry performs at most max_retries+1 agent runs and
\* at most max_retries browser restarts; it returns only after an agent run
\* succeeded, and when the last permitted attempt fails the exception
\* propagates to the caller.
\* ------------------------------------------------------------------------
RetryBounds ==
    mode = "retry"
        => /\ rt_runs <= fn_args.max_retries + 1
           /\ rt_restarts <= fn_args.max_retries
           /\ rt_pc = "returned" => rt_runs >= 1

\* An exception is raised inside the try block.
RtRaises == RtAgentRaises \/ RtRestartFails

C22_BoundedAttempts ==
    /\ []RetryBounds
    /\ [][(rt_pc' = "returned" /\ rt_pc # "returned") => RtAgentReturns]_vars
    /\ [][(RtRaises /\ rt_attempt = fn_args.max_retries)
             => (rt_pc' = "raised" /\ rt_exc' \in RetryExceptions)]_vars

C22_Witness ==
    /\ mode = "retry"
    /\ fn_args.max_retries = MaxRetries
    /\ rt_pc = "raised"
    /\ rt_runs = MaxRetries + 1
    /\ rt_restarts = MaxRetries
    /\ rt_exc.text = ErrorTexts.timeout

\* ------------------------------------------------------------------------
\* C23: in run_agent_with_retry every timeout-shaped exception (a
\* TimeoutError, or any exception whose text mentions a timeout or
\* screenshot) raised while retries remain is recovered by a browser restart
\* followed by a new attempt; an exception that is not timeout-shaped
\* propagates immediately with no restart.
\* ------------------------------------------------------------------------
\* The exception is retried: the loop goes on with the next attempt.
RtRecovered == rt_pc' = "for" /\ rt_attempt' = rt_attempt + 1

\* The exception leaves run_agent_with_retry at once.
RtPropagated ==
    rt_pc' = "raised" /\ rt_attempt' = rt_attempt /\ rt_restarts' = rt_restarts

\* A later attempt creates its browser before it runs the agent.
RestartBeforeRun == [][(rt_pc' = "agent" /\ rt_attempt > 0) => RtRestart]_vars

C23_TimeoutShapedRecovered ==
    /\ [][\A exc \in RetryExceptions :
             (RtRaises /\ rt_exc' = exc)
                => IF exc.cls = "TimeoutError" \/ MentionsTimeout(exc)
                   THEN rt_attempt < fn_args.max_retries => RtRecovered
                   ELSE RtPropagated]_vars
    /\ RestartBeforeRun

\* ------------------------------------------------------------------------
\* C24: modal_open_event is set only in a detector cycle whose verdict has
\* has_modal true, and it is clear at the end of every detector cycle that
\* either received has_modal false or attempted the close click (including
\* when the close click itself failed).
\* ------------------------------------------------------------------------
\* The detector's step received a verdict with has_modal true.
DetPositiveVerdict ==
    DetModalNew \/ DetModalNewMkdirFails \/ DetModalKnown \/ DetModalMalformed

\* The detector's cycle ends (it goes to the interval sleep) after a
\* negative verdict or after the close click was attempted.
DetCycleEndsClosed == DetNoModal \/ DetClearSignal

C24_SignalFollowsVerdict ==
    /\ [][(modal_open_event' /\ ~modal_open_event) => DetPositiveVerdict]_vars
    /\ [][DetCycleEndsClosed => ~modal_open_event']_vars
    /\ [][(det_pc = "after_close" /\ det_pc' = "sleep") => DetClearSignal]_vars

C24_Witness ==
    /\ mode = "llm"
    /\ det_pc = "sleep"
    /\ det_cycle.active
    /\ ~modal_open_event
    /\ detections_list # <<>>
    /\ ~det_pending

\* ------------------------------------------------------------------------
\* C25: while the run is in RUNNING (ledger incomplete, deadline not expired,
\* stop signal not set) the gameplay driver stays active alongside the
\* detector: the driver task does not terminate before the stop signal is
\* set.
\* ------------------------------------------------------------------------
Running ==
    /\ mode \in {"timed", "llm"}
    /\ ctl_pc = "wait_for"
    /\ ~AllDetected(detected_types)
    /\ ~deadline
    /\ ~stop_event

C25_DriverActiveWhileRunning == Running => drv_exit = "running"

JudgeFailures == JudgeOutcomes \ {"verdict"}

C27_JudgeFailureAbsorbed ==
    /\ [][\A outcome \in JudgeFailures :
             CtlJudge(outcome)
                => /\ JudgeEnds(outcome) = "logged"
                   /\ UNCHANGED <<ledger, summary, ctl_err>>
                   /\ ctl_pc' = "stopping"]_vars
    /\ [][(ctl_pc = "stopping" /\ ctl_pc' # "stopping") => CtlBrowserStopped]_vars
    /\ [](ctl_judge \in JudgeFailures => (summary.printed /\ ~ctl_err))

C27_Witness ==
    /\ ctl_judge = "ainvoke_raises"
    /\ ctl_pc = "end"
    /\ summary.printed
    /\ ~summary.complete
    /\ ~ctl_err

\* ------------------------------------------------------------------------
\* C29: in every detector cycle whose verdict has has_modal true, a close
\* click is dispatched within that same cycle, whether the category turned
\* out to be new, already counted, or unresolved.
\* ------------------------------------------------------------------------
\* The cycle goes to its interval sleep straight from the verdict.
DetCycleEndsUnclosed == det_pc = "llm" /\ det_pc' = "sleep"

C29_PositiveCycleClicksClose ==
    [][DetPositiveVerdict => ~DetCycleEndsUnclosed]_vars

\* ------------------------------------------------------------------------
\* C28: for every valid JSON object text J, _parse_json_lenient applied to J
\* wrapped in a markdown code fence returns the same object as
\* _parse_json_lenient applied to J alone.
\* ------------------------------------------------------------------------
ParseReturned == mode = "parse" /\ fn_result # "pending"

C28_FencedRoundTrip ==
    \A j \in JsonObjects :
        (ParseReturned /\ fn_args.text \in Fenced(j))
            => /\ fn_result = ParseJsonLenient(j)
               /\ fn_result = JsonLoads(j)

C28_Witness ==
    /\ ParseReturned
    /\ fn_args.text = Wrapped(Json.brace).fenced_json
    /\ fn_result = JsonLoads(Json.brace)
    /\ fn_result \notin ParseErrors

\* ------------------------------------------------------------------------
\* C30: normalize applies its rules in order and the first match wins: an
\* exact or variant match of rawType decides the result regardless of
\* rawLabel, rawText and ledger state, a type/label substring match decides
\* it regardless of rawText and ledger state, and the ledger state
\* influences the result only when no rule on type, label or text matches.
\* ------------------------------------------------------------------------
\* raw_type is one of the tags or variants the first rule lists.
IsTypeVariant(a) ==
    Clean(a.raw_type) \in
        {K.violence, K.drugs, K.sexual, K.drug, K.violence_weapons,
         K.violence_dash_weapons, K.weapons, K.weapon, K.gun,
         K.sexual_inappropriate, K.sexual_dash_inappropriate, K.inappropriate,
         K.sex, K.sexual_content}

\* raw_type or raw_label holds one of the words of the second rule.
HasTypeLabelWord(a) ==
    \E s \in {Clean(a.raw_type), Clean(a.raw_label)} :
        ContainsAny(s, {K.drug, K.sexual, K.inappropriate, K.violence,
                        K.weapon, K.gun})

\* What the normalizer returns on each of the arguments, computed once.
NormalizedArgs ==
    [b \in NormalizeArgs |->
        NormalizeContentType(b.raw_type, b.raw_label, b.raw_text,
                             b.detected_types)]

\* The arguments that differ from a in the fields left free.
SameType(a) == {b \in NormalizeArgs : b.raw_type = a.raw_type}

SameTypeLabel(a) == {b \in SameType(a) : b.raw_label = a.raw_label}

SameTypeLabelText(a) == {b \in SameTypeLabel(a) : b.raw_text = a.raw_text}

C30_FirstMatchWins ==
    Returned =>
        /\ IsTypeVariant(fn_args)
              => \A b \in SameType(fn_args) : NormalizedArgs[b] = fn_result
        /\ HasTypeLabelWord(fn_args)
              => \A b \in SameTypeLabel(fn_args) : NormalizedArgs[b] = fn_result
        /\ ~NoRuleMatches(fn_args)
              => \A b \in SameTypeLabelText(fn_args) :
                     NormalizedArgs[b] = fn_result

C30_Witness ==
    /\ Returned
    /\ fn_args.raw_type = K.weapons
    /\ fn_args.raw_label = TYPE_LABELS("drugs")
    /\ fn_args.raw_text = CANONICAL_MESSAGES("sexual")
    /\ fn_args.detected_types = [violence |-> TRUE, drugs |-> FALSE, sexual |-> TRUE]
    /\ fn_result = "violence"

\* ------------------------------------------------------------------------
\* C31: in the unified loop, when the LLM asks for a click near the cached
\* close point while reporting no modal, a re-check with the detection-only
\* classifier runs on a fresh screenshot before any click; if the re-check
\* reports a modal, the click is not dispatched in that cycle and the loop
\* moves to its next cycle.
\* ------------------------------------------------------------------------
\* The point p lies within 70 px horizontally and 50 px vertically of the
\* close point.
InCloseRegion(p, close) ==
    /\ close # NoPoint
    /\ p[1] - close[1] <= CloseTolX /\ close[1] - p[1] <= CloseTolX
    /\ p[2] - close[2] <= CloseTolY /\ close[2] - p[2] <= CloseTolY

\* The click the LLM asked for in this cycle.
RequestedClick == ActionPoint(uni_data, uni_vp)

C31_RecheckBeforeCloseClick ==
    /\ [][(drv_pc = "fallback" /\ drv_pc' = "mouse_play")
             => ~InCloseRegion(RequestedClick, uni_close)]_vars
    /\ [][(drv_pc' = "mouse_play" /\ drv_pc # "mouse_play")
             => (UniClickAway \/ UniRecheckClear)]_vars
    /\ [][(drv_pc' = "recheck" /\ drv_pc # "recheck") => drv_pc = "shot2"]_vars
    /\ [][(drv_pc' = "shot2" /\ drv_pc # "shot2") => UniRecheckShot]_vars
    /\ [][UniRecheckModal => (drv_pc' = "sleep" /\ uni_data' = NoAction)]_vars
    /\ [][(drv_pc' = "click_play" /\ drv_pc # "click_play")
             => drv_pc = "mouse_play"]_vars

C31_Witness ==
    /\ mode = "unified"
    /\ drv_pc = "recheck"
    /\ ActionOf(uni_data) = "click"
    /\ InCloseRegion(RequestedClick, uni_close)

\* ------------------------------------------------------------------------
\* C32: detector_loop stops when all three types are detected or the stop
\* signal is set: at the first iteration boundary at which either holds it
\* exits, and after the ledger is complete it takes no further screenshot,
\* makes no further classifier call and dispatches no further click.
\* ------------------------------------------------------------------------
\* Every category of the ledger is flagged.
LedgerComplete == \A k \in Categories : detected_types[k]

\* The loop is at an iteration boundary at which it has to exit.
ExitsAtBoundary ==
    /\ (DetLoopHead /\ (stop_event \/ LedgerComplete)) => det_pc' = "done"
    /\ (UniLoopHead /\ (stop_event \/ LedgerComplete)) => drv_pc' = "done"

\* A step of the detecting loop that takes a screenshot or calls a
\* classifier.
TakesShotOrAsks ==
    \/ DetViewport \/ DetScreenshot
    \/ UniViewport \/ UniScreenshot \/ UniAnswerNoModal \/ UniRecheckShot
    \/ UniRecheckAsk

\* A step of the detecting loop that dispatches a click.
DispatchesClick == DetCloseClick \/ UniCloseClick \/ UniPlayClick

\* As stated: no click at all once the ledger is complete.
C32_NothingAfterComplete ==
    [][/\ ExitsAtBoundary
       /\ LedgerComplete => ~(TakesShotOrAsks \/ DispatchesClick)]_vars

\* Amended: the one click after completion is the close click of the cycle
\* whose commit completed the ledger.
C32_OnlyClosingClickAfterComplete ==
    [][/\ ExitsAtBoundary
       /\ LedgerComplete => ~(TakesShotOrAsks \/ UniPlayClick)
       /\ (LedgerComplete /\ DetCloseClick) => det_cycle.is_new
       /\ (LedgerComplete /\ UniCloseClick) => uni_modal.is_new]_vars

C32_Witness ==
    /\ mode = "llm"
    /\ LedgerComplete
    /\ det_pc = "done"
    /\ det_exit = "complete"
    /\ det_cycle = NoCycle


\* ---------------------------------------------------------------------------
\* C33: in detector_loop the default close point is derived from the first
\* viewport read that parses, as (width/2, height/2 + 100), and is kept for
\* the rest of the run: a read that parse_viewport cannot parse leaves the
\* point unset, the first read that parses sets it from its own width and
\* height, and once set the point never changes.
C33_ClosePointFromFirstParsedRead ==
    [][/\ (DetViewport /\ det_close = NoPoint /\ ~det_vp_str'.ok)
            => det_close' = NoPoint
       /\ (DetViewport /\ det_close = NoPoint /\ det_vp_str'.ok)
            => det_close' = DefaultClosePoint(det_vp_str'.w, det_vp_str'.h)
       /\ det_close # NoPoint => det_close' = det_close]_vars

\* ---------------------------------------------------------------------------
\* C34: while detect_harmful_content reads the run history, a category's
\* detected flag only changes from false to true, a later report of a
\* category that is already detected changes nothing of its record, and the
\* report that first marks a category fixes its screenshot index.
FlagsOnlyRise ==
    [][\A k \in Categories :
          sync_detected_types[k].detected => sync_detected_types'[k].detected]_vars

LaterReportsChangeNothing ==
    [][\A k \in Categories :
          sync_detected_types[k].detected
             => sync_detected_types'[k] = sync_detected_types[k]]_vars

FirstReport(k) ==
    ~sync_detected_types[k].detected /\ sync_detected_types'[k].detected

\* As stated: every first report fixes an index inside
\* 0..len(screenshot_paths)-1.
C34_FirstReportFixesIndexInRange ==
    /\ FlagsOnlyRise
    /\ LaterReportsChangeNothing
    /\ [][\A k \in Categories :
             FirstReport(k)
                => sync_detected_types'[k].screenshot_idx \in 0..(n_paths - 1)]_vars

\* What holds: a first report from model_outputs or action_results, in a
\* history that has screenshot paths, fixes the index min(step_idx,
\* len(screenshot_paths) - 1); a first report from final_result or
\* extracted_content, or in a history without screenshot paths, leaves the
\* index None; an index that is set lies in 0..len(screenshot_paths)-1.
C34_IndexFixedByIndexedSources ==
    /\ FlagsOnlyRise
    /\ LaterReportsChangeNothing
    /\ [][\A k \in Categories :
             FirstReport(k)
                => sync_detected_types'[k].screenshot_idx =
                      IF post_pc \in {"model_outputs", "action_results"} /\ n_paths > 0
                      THEN (IF step_idx <= n_paths - 1 THEN step_idx ELSE n_paths - 1)
                      ELSE NoIndex]_vars
    /\ [](\A k \in Categories :
             \/ sync_detected_types[k].screenshot_idx = NoIndex
             \/ sync_detected_types[k].screenshot_idx \in 0..(n_paths - 1))

\* A second report of drugs arrives at step 2, after the first one fixed
\* index 0.
C34_Witness ==
    /\ mode = "history"
    /\ post_pc = "model_outputs"
    /\ step_idx = MaxEntries
    /\ entry = HistoryText.drug_report
    /\ sync_detected_types["drugs"].detected
    /\ sync_detected_types["drugs"].screenshot_idx = 0
    /\ sync_detected_types["violence"].screenshot_idx = 1
    /\ n_paths = MaxPaths

\* ---------------------------------------------------------------------------
\* C38: in the synchronous monitor a category is marked detected only by a
\* history entry that carries the detection marker (the alarm glyph or the
\* phrase "harmful content detected"): the entry read by the step that sets
\* a detected flag always has the marker.
C38_MarkedOnlyOnMarker ==
    [][\A k \in Categories :
          (~sync_detected_types[k].detected /\ sync_detected_types'[k].detected)
             => (Contains(entry', <<Alarm>>)
                 \/ Contains(Lower(entry'), Phrase.harmful_content_detected))]_vars

\* ---------------------------------------------------------------------------
\* C36: every browser created for the synchronous monitor, the first one and
\* each replacement made by a restart, has been closed when
\* detect_harmful_content leaves its try/finally, also when the retries are
\* exhausted and the exception propagates.  (A browser whose close() was
\* called and raised is counted as closed here.)
C36_AllBrowsersClosedAfterFinally ==
    sync_pc = "left" => \A b \in 1..Len(browsers) : browsers[b] # "open"

\* ---------------------------------------------------------------------------
\* C35: every category that is marked detected when the final summary is
\* produced has had the close click for its modal dispatched: when the
\* summary reports the three categories as "DETECTED AND CLOSED", no commit
\* of the detector is still waiting for its close click.
C35_ReportedClosedWasClicked ==
    (summary.printed /\ summary.complete) => ~det_pending

\* ---------------------------------------------------------------------------
\* C37: ledger consistency.  In every state in which control can pass between
\* tasks, detections_list has as many records as there are categories whose
\* flag is true, the type of every record is a category whose flag is true,
\* and a step never removes or replaces a record that is already in the
\* list.
FlaggedCategories == {k \in Categories : detected_types[k]}

RecordsKept ==
    /\ Len(detections_list') >= Len(detections_list)
    /\ SubSeq(detections_list', 1, Len(detections_list)) = detections_list

C37_LedgerConsistent ==
    /\ [](Len(detections_list) = Cardinality(FlaggedCategories))
    /\ [](\A i \in 1..Len(detections_list) :
             detections_list[i].type \in FlaggedCategories)
    /\ [][RecordsKept]_vars

\* The third record has just been appended by the detector.
C37_Witness ==
    /\ mode = "timed"
    /\ det_pc = "mouse"
    /\ det_pending
    /\ Len(detections_list) = 3
    /\ detections_list[1].type # detections_list[3].type

\* ---------------------------------------------------------------------------
\* C39: in llm_driven_gameplay_loop a play click dispatched after a negative
\* pre-click re-check never lies inside the close region of the current close
\* point (within 70 px horizontally and 50 px vertically of close_x,
\* close_y), whatever the viewport and whatever close point the loop holds,
\* one supplied by the classifier included.
C39_RecheckedClickOutsideCloseRegion ==
    (mode = "unified" /\ drv_pc = "click_play" /\ uni_data.rechecked)
        => ~InCloseRegion(PlayClickPoint, uni_close)

====
